---- MODULE Spec2Model ----
(***************************************************************************)
(* Model of the MLX90632 driver: the measurement sequencer                 *)
(* (mlx90632_start_measurement, the raw read operations of the medical and *)
(* extended tables, the burst trigger) and the EEPROM refresh-rate writer  *)
(* (mlx90632_set_refresh_rate / mlx90632_get_refresh_rate).                *)
(*                                                                         *)
(* The driver is single threaded.  One API call runs at a time; `call` is  *)
(* the API function in progress and `pc` the position inside it.  Every    *)
(* transport call (mlx90632_i2c_read, mlx90632_i2c_write, usleep, msleep)  *)
(* is one action; a bus call either fails with a negative code or succeeds *)
(* and, for a read, delivers a word chosen by the device.                  *)
(***************************************************************************)
EXTENDS Integers, Sequences, FiniteSets, TLC

(* ---------------------------------------------------------------------- *)
(* Error codes                                                              *)
(* ---------------------------------------------------------------------- *)
EPERM == 1
EIO == 5
EINVAL == 22
ERANGE == 34
EPROTONOSUPPORT == 93
ETIMEDOUT == 110

\* the codes a failing transport call returns: any negative value; the tests
\* use -EPERM, -EIO stands for the codes the driver itself never produces
BusErrs == {-EPERM, -EIO}

(* ---------------------------------------------------------------------- *)
(* Register map                                                             *)
(* ---------------------------------------------------------------------- *)
MLX90632_ADDR_RAM == 16384                 \* 0x4000
MLX90632_REG_CTRL == 12289                 \* 0x3001
MLX90632_REG_STATUS == 16383               \* 0x3fff
MLX90632_EE_VERSION == 9227                \* 0x240b
MLX90632_DSPv5 == 5                        \* 0x05
MLX90632_XTD_RNG_KEY == 1280               \* 0x0500
MLX90632_REG_EE_UNLOCK == 12293            \* 0x3005, literal in mlx90632_unlock_eeporm
MLX90632_EE_MEDICAL_MEAS1 == 9441          \* 0x24E1
MLX90632_EE_MEDICAL_MEAS2 == 9442          \* 0x24E2
MLX90632_EE_EXTENDED_MEAS1 == 9457         \* 0x24F1
MLX90632_EE_EXTENDED_MEAS2 == 9458         \* 0x24F2
MLX90632_EE_EXTENDED_MEAS3 == 9459         \* 0x24F3
MLX90632_EEPROM_WRITE_KEY == 21836         \* 0x554C
MLX90632_MEAS_MAX_TIME == 2000

MLX90632_STAT_DATA_RDY == 1                \* BIT(0)
MLX90632_STAT_EE_BUSY == 512               \* BIT(9)
MLX90632_STAT_BUSY == 1024                 \* BIT(10)
MLX90632_START_BURST_MEAS == 2048          \* MLX90632_SOB_CFG(1) = 1 << 11

MLX90632_MTYP_MEDICAL == 0
MLX90632_MTYP_EXTENDED == 17
MLX90632_MTYP_MEDICAL_BURST == 128
MLX90632_MTYP_EXTENDED_BURST == 145

MLX90632_RAM_1(meas_num) == MLX90632_ADDR_RAM + 3 * meas_num
MLX90632_RAM_2(meas_num) == MLX90632_ADDR_RAM + 3 * meas_num + 1
MLX90632_RAM_3(meas_num) == MLX90632_ADDR_RAM + 3 * meas_num + 2

\* retry bound of the data-ready / device-busy polling loops
MLX90632_MAX_NUMBER_MESUREMENT_READ_TRIES == 100

\* bit range of the refresh-rate field of a timing entry
MLX90632_EE_REFRESH_RATE_START == 10
MLX90632_EE_REFRESH_RATE_SHIFT == 8

\* value mlx90632_get_refresh_rate returns when its read fails
MLX90632_MEAS_HZ_ERROR == -1

(* ---------------------------------------------------------------------- *)
(* 16-bit arithmetic                                                        *)
(* ---------------------------------------------------------------------- *)
RECURSIVE Pow2(_)
Pow2(n) == IF n = 0 THEN 1 ELSE 2 * Pow2(n - 1)

RECURSIVE BitAnd(_, _)
BitAnd(a, b) ==
    IF a = 0 \/ b = 0 THEN 0
    ELSE (a % 2) * (b % 2) + 2 * BitAnd(a \div 2, b \div 2)

RECURSIVE BitOr(_, _)
BitOr(a, b) ==
    IF a = 0 THEN b
    ELSE IF b = 0 THEN a
    ELSE (IF a % 2 = 1 \/ b % 2 = 1 THEN 1 ELSE 0) + 2 * BitOr(a \div 2, b \div 2)

\* a ^ b on non-negative words
BitXor(a, b) == BitOr(a, b) - BitAnd(a, b)

\* GENMASK(h, l): bits l..h set
GENMASK(h, l) == Pow2(h + 1) - Pow2(l)

\* conversion of an int to uint16_t
ToUint16(x) == x % 65536

\* the cast (int16_t)read_tmp of a uint16_t word
ToInt16(u) == IF u >= 32768 THEN u - 65536 ELSE u

\* C integer division: the quotient is truncated toward zero
CDiv(a, b) == IF a >= 0 THEN a \div b ELSE -((-a) \div b)

MLX90632_STAT_CYCLE_POS == GENMASK(6, 2)
MLX90632_CFG_PWR_MASK == GENMASK(2, 1)
MLX90632_CFG_MTYP_MASK == GENMASK(8, 4)
MLX90632_PWR_STATUS_SLEEP_STEP == 1 * 2    \* MLX90632_PWR_STATUS(1)
MLX90632_PWR_STATUS_CONTINUOUS == 3 * 2    \* MLX90632_PWR_STATUS(3)

\* (reg & MLX90632_CFG_MTYP_MASK) >> 4
MLX90632_MTYP(reg) == BitAnd(reg, MLX90632_CFG_MTYP_MASK) \div 16

\* reg & MLX90632_CFG_PWR_MASK
MLX90632_CFG_PWR(reg) == BitAnd(reg, MLX90632_CFG_PWR_MASK)

\* meas_type + 0x80
MLX90632_BURST_MEASUREMENT_TYPE(meas_type) == meas_type + 128

MLX90632_RESET_CMD == 6
MLX90632_PWR_STATUS_HALT == 0 * 2          \* MLX90632_PWR_STATUS(0)
\* (ctrl_val << 4)
MLX90632_MTYP_STATUS(ctrl_val) == ctrl_val * 16
\* (mtyp_type & 0x7F)
MLX90632_MEASUREMENT_TYPE_STATUS(mtyp_type) == BitAnd(mtyp_type, 127)
\* mtyp_type & 0x80
MLX90632_MEASUREMENT_BURST_STATUS(mtyp_type) == BitAnd(mtyp_type, 128)
MLX90632_EE_REFRESH_RATE_MASK == GENMASK(10, 8)

\* ((old_reg & (0xFFFF ^ GENMASK(h, l))) | (new_value << SHIFT)), stored in a uint16_t
MLX90632_NEW_REG_VALUE(old_reg, new_value, h, l) ==
    ToUint16(BitOr(BitAnd(old_reg, BitXor(65535, GENMASK(h, l))),
                   new_value * Pow2(MLX90632_EE_REFRESH_RATE_SHIFT)))

\* the word is shifted without being masked
MLX90632_REFRESH_RATE_Unmasked(ee_val) ==
    ee_val \div Pow2(MLX90632_EE_REFRESH_RATE_SHIFT)

\* (ee_val & MLX90632_EE_REFRESH_RATE_MASK) >> 8
MLX90632_REFRESH_RATE(ee_val) ==
    BitAnd(ee_val, MLX90632_EE_REFRESH_RATE_MASK) \div Pow2(MLX90632_EE_REFRESH_RATE_SHIFT)

(* ---------------------------------------------------------------------- *)
(* Words the device delivers                                                *)
(* ---------------------------------------------------------------------- *)
\* status words seen by the measurement polls:
\*   0x0006 pos 1 not ready, 0x0406 pos 1 not ready and device busy,
\*   0x0087 pos 1 ready, 0x008B pos 2 ready, 0x00C5 pos 17 ready,
\*   0x00C9 pos 18 ready, 0x00CF pos 19 ready
StatusVals == {6, 1030, 135, 139, 197, 201, 207}

\* status words seen while the EEPROM is programmed: 0x0200 busy, 0xFDFF not busy
EEStatusVals == {512, 65023}

\* RAM words: 0x8000 = -32768, 0xFFFF = -1, 0x7FFF = 32767
RamVals == {32768, 65535, 32767}

\* refresh-rate codes passed to mlx90632_set_refresh_rate (mlx90632_meas_t)
MeasRates == {0, 2, 7}

\* control-register words: 0x0002 medical sleeping-step, 0x0112 extended
\* sleeping-step, 0x0006 medical continuous
CtrlVals == {2, 274, 6}

\* type arguments of mlx90632_set_meas_type: the four measurement types,
\* 9 (the invalid type of the tests), 0x90 and 0x20
MeasTypes == {0, 17, 128, 145, 9, 144, 32}

\* control-register words of the measurement-type tests: 0xFE0F medical
\* continuous, 0xFF1F extended continuous, 0xFE02 medical sleeping-step,
\* 0xFF12 extended sleeping-step, 0xFE9F type 9, 0xFE04 power mode step,
\* and 0x0000 medical halt
ModeCtrlVals == {65039, 65311, 65026, 65298, 65183, 65028, 0}

\* number of EEPROM-busy status words one wait may see
MaxEEBusy == 1

\* marks an output of the caller that the driver has not written
Unwritten == 100000

EEAddrs == {MLX90632_EE_MEDICAL_MEAS1, MLX90632_EE_MEDICAL_MEAS2,
            MLX90632_EE_EXTENDED_MEAS1, MLX90632_EE_EXTENDED_MEAS2,
            MLX90632_EE_EXTENDED_MEAS3}

(* ---------------------------------------------------------------------- *)
(* State                                                                    *)
(* ---------------------------------------------------------------------- *)
VARIABLES
    call,                   \* API function in progress
    pc,                     \* position inside it; "idle" / "done" between calls
    ret,                    \* value returned by the call, 0 while it runs
    measRate,               \* argument of mlx90632_set_refresh_rate
    type,                   \* argument of mlx90632_set_meas_type
    typeSet,                \* history: type of the last successful mlx90632_set_meas_type, -1 if none
    typeHalted,             \* history: type written by the first control write of a
                            \* mlx90632_set_meas_type that has not completed, -1 if none
    tries,                  \* tries of the polling loop
    ext_tries,              \* tries of mlx90632_read_temp_raw_extended
    reg_status,             \* last word read into reg_status / reg
    start_measurement_ret,  \* result of the trigger in the read operations
    cyclic,                 \* history: the positions the triggers of the current call
                            \* returned are successive steps of the cycle 17, 18, 19, 17
    channel,                \* channel selected as new
    channel_old,            \* channel selected as old
    read,                   \* accumulator of the object reads
    new_value,              \* value to program in mlx90632_set_refresh_rate
    refresh_time,           \* sum of mlx90632_calculate_dataset_ready_time
    meas_type,              \* result of mlx90632_get_meas_type in the burst trigger
    out,                    \* the caller's outputs
    eeprom,                 \* device: EEPROM timing entries
    ctrl,                   \* device: control register
    polls,                  \* history: status polls of the current trigger
    sleeps,                 \* history: usleep(10000, 11000) calls of the current trigger
    msleeps,                \* history: msleep calls of the current trigger
    sawReady,               \* history: a poll of the current trigger showed its exit bit
    triggers,               \* history: triggers issued by the current call
    log,                    \* history: bus calls of the current call outside the trigger
    failed,                 \* history: code of the first failed bus call, 0 if none
    afterFail,              \* history: transport calls made after a failed bus call
    ee0,                    \* history: EEPROM contents when the call started
    meas,                   \* meas1 / meas2 of mlx90632_set_refresh_rate
    address,                \* address parameter of mlx90632_write_eeprom
    programmed,             \* history: rate of the last successful set_refresh_rate, -1 if none
    eeprom_version,         \* eeprom_version of mlx90632_init
    emissivity,             \* static double emissivity
    value,                  \* history: argument of the last mlx90632_set_emissivity
    everSet,                \* history: mlx90632_set_emissivity has been called
    emissivity_ret,         \* the double mlx90632_get_emissivity returned
    completed,              \* device: measurements completed since the trigger of
                            \* mlx90632_read_temp_raw saw data ready
    calc,                   \* an object-temperature calculation running in a thread
                            \* of its own: position, function, tmp_emi, i, and history
    store                   \* a mlx90632_set_emissivity running in another thread:
                            \* the store to the static variable is under way

vars == <<call, pc, ret, measRate, type, typeSet, typeHalted, tries, ext_tries, reg_status,
          start_measurement_ret, cyclic, channel, channel_old, read, new_value,
          refresh_time, meas_type, out, eeprom, ctrl, polls, sleeps, msleeps,
          sawReady, triggers, log, failed, afterFail, ee0, meas, address, programmed,
          eeprom_version, emissivity, value, everSet, emissivity_ret, completed,
          calc, store>>

\* the emissivity setting and its history
emVars == <<emissivity, value, everSet, emissivity_ret>>

\* what the device does on its own while the driver runs
devVars == <<completed, calc, store>>

\* a double: not-a-number, or a sign and a magnitude in thousandths
Double(isnan, neg, mag) == [nan |-> isnan, neg |-> neg, mag |-> mag]

\* the doubles 0.0 and 1.0
DoubleZero == Double(FALSE, FALSE, 0)
DoubleOne == Double(FALSE, FALSE, 1000)

locals == <<tries, ext_tries, reg_status, start_measurement_ret, cyclic, channel,
            channel_old, read, new_value, refresh_time, meas_type>>

NoOut == [ambient_new |-> Unwritten, ambient_old |-> Unwritten,
          object_new |-> Unwritten, object_old |-> Unwritten]

Rd(a, v, r) == [op |-> "r", addr |-> a, val |-> v, ret |-> r]
Wr(a, v, r) == [op |-> "w", addr |-> a, val |-> v, ret |-> r]
\* usleep(min_range, max_range) and msleep(msecs)
Us(min_range, max_range) == [op |-> "usleep", addr |-> min_range, val |-> max_range, ret |-> 0]
Ms(msecs) == [op |-> "msleep", addr |-> 0, val |-> msecs, ret |-> 0]

\* the state after power-up, before any call: the timing table is one of ts
\* and the control register holds one of cs
InitTables(ts, cs) ==
    /\ call = "none"
    /\ pc = "idle"
    /\ ret = 0
    /\ measRate = 0
    /\ type = 0
    /\ typeSet = -1
    /\ typeHalted = -1
    /\ tries = 0
    /\ ext_tries = 0
    /\ reg_status = 0
    /\ start_measurement_ret = 0
    /\ cyclic = TRUE
    /\ channel = 0
    /\ channel_old = 0
    /\ read = 0
    /\ new_value = 0
    /\ refresh_time = 0
    /\ meas_type = 0
    /\ out = NoOut
    /\ eeprom \in ts
    /\ ctrl \in cs
    /\ polls = 0
    /\ sleeps = 0
    /\ msleeps = 0
    /\ sawReady = FALSE
    /\ triggers = 0
    /\ log = <<>>
    /\ failed = 0
    /\ afterFail = 0
    /\ ee0 = eeprom
    /\ meas = 0
    /\ address = 0
    /\ programmed = -1
    /\ eeprom_version = 0
    /\ emissivity = DoubleZero
    /\ value = DoubleZero
    /\ everSet = FALSE
    /\ emissivity_ret = DoubleZero
    /\ completed = 0
    /\ calc = [pc |-> "idle", fn |-> "object", tmp_emi |-> [nan |-> FALSE, neg |-> FALSE, mag |-> 0],
               first |-> [nan |-> FALSE, neg |-> FALSE, mag |-> 0],
               i |-> 0, used |-> {}, loads |-> 0]
    /\ store = [busy |-> FALSE, data |-> [nan |-> FALSE, neg |-> FALSE, mag |-> 0]]

\* the medical timing entries hold one of the words of m1s / m2s, the extended
\* ones 0x820D
InitWith(m1s, m2s, cs) ==
    InitTables({[a \in EEAddrs |->
                   IF a = MLX90632_EE_MEDICAL_MEAS1 THEN m1
                   ELSE IF a = MLX90632_EE_MEDICAL_MEAS2 THEN m2
                   ELSE 33293] : m1 \in m1s, m2 \in m2s}, cs)

\* the measurement sequencer starts from the default timing table
\* (0x820D, 0x821D) in any of the measurement modes
Init == InitWith({33293}, {33309}, CtrlVals)

\* the refresh-rate writer starts from timing entries whose rate fields
\* agree (0x820D, 0x821D) or differ (0x800D, 0x821D)
InitEE == InitWith({32781, 33293}, {33309}, {6})

(* ---------------------------------------------------------------------- *)
(* Bookkeeping shared by the actions                                        *)
(* ---------------------------------------------------------------------- *)
\* a transport call returned r (0 for a sleep)
Note(r) ==
    /\ afterFail' = IF failed # 0 THEN afterFail + 1 ELSE afterFail
    /\ failed' = IF failed = 0 /\ r < 0 THEN r ELSE failed

\* the API call returns v to its caller
Finish(v) ==
    /\ pc' = "done"
    /\ ret' = v

\* an API function is entered with fresh locals and fresh outputs
Enter(f, first) ==
    /\ pc \in {"idle", "done"}
    /\ call' = f
    /\ pc' = first
    /\ tries' = 0
    /\ reg_status' = 0
    /\ start_measurement_ret' = 0
    /\ cyclic' = TRUE
    /\ channel' = 0
    /\ channel_old' = 0
    /\ read' = 0
    /\ new_value' = 0
    /\ refresh_time' = 0
    /\ meas_type' = 0
    /\ out' = NoOut
    /\ polls' = 0
    /\ sleeps' = 0
    /\ msleeps' = 0
    /\ sawReady' = FALSE
    /\ log' = <<>>
    /\ failed' = 0
    /\ afterFail' = 0
    /\ ee0' = eeprom
    /\ meas' = 0
    /\ address' = 0
    /\ eeprom_version' = 0
    /\ ret' = 0
    /\ UNCHANGED <<eeprom, ctrl>>

(* ---------------------------------------------------------------------- *)
(* mlx90632_start_measurement                                               *)
(* ---------------------------------------------------------------------- *)
\* the masked field is returned without the shift
CyclePos_Unshifted(status) == BitAnd(status, MLX90632_STAT_CYCLE_POS)

\* (reg_status & MLX90632_STAT_CYCLE_POS) >> 2
CyclePos(status) == BitAnd(status, MLX90632_STAT_CYCLE_POS) \div 4

\* off by one: data ready seen on the last permitted poll counts as a timeout
StartMeasurementResult_LastPollLost(t, status) ==
    IF t <= 0 THEN -ETIMEDOUT ELSE CyclePos(status)

\* the exhausted loop reports an I/O error instead of a timeout
StartMeasurementResult_TimeoutAsIo(t, status) ==
    IF t < 0 THEN -EIO ELSE CyclePos(status)

\* the code after the polling loop, with tries as the loop left it
StartMeasurementResult(t, status) ==
    IF t < 0 THEN -ETIMEDOUT ELSE CyclePos(status)

\* the two cases assign the channels the wrong way round
mlx90632_channel_new_select_Swapped(r) ==
    IF r = 1 THEN [ret |-> 0, channel_new |-> 2, channel_old |-> 1]
    ELSE IF r = 2 THEN [ret |-> 0, channel_new |-> 1, channel_old |-> 2]
    ELSE [ret |-> -EINVAL, channel_new |-> 0, channel_old |-> 0]

\* the default case falls into the case of position 2
mlx90632_channel_new_select_NoDefault(r) ==
    IF r = 1 THEN [ret |-> 0, channel_new |-> 1, channel_old |-> 2]
    ELSE [ret |-> 0, channel_new |-> 2, channel_old |-> 1]

\* position 2 selects channel 1 as new, like position 1
mlx90632_channel_new_select_AlwaysFirst(r) ==
    IF r \in {1, 2}
    THEN [ret |-> 0, channel_new |-> 1, channel_old |-> 2]
    ELSE [ret |-> -EINVAL, channel_new |-> 0, channel_old |-> 0]

\* mlx90632_channel_new_select
mlx90632_channel_new_select(r) ==
    IF r = 1 THEN [ret |-> 0, channel_new |-> 1, channel_old |-> 2]
    ELSE IF r = 2 THEN [ret |-> 0, channel_new |-> 2, channel_old |-> 1]
    ELSE [ret |-> -EINVAL, channel_new |-> 0, channel_old |-> 0]

\* two tries only
ExtendedTries_Two == 3 - 1

\* int tries = 3 of mlx90632_read_temp_raw_extended
ExtendedTries == 3

\* off by one: position 19 reached by the last permitted trigger is a timeout
ExtendedTimedOut_LastTriggerLost(t) == t <= 0

\* the check `if (tries < 0)` after the loop of mlx90632_read_temp_raw_extended
ExtendedTimedOut(t) == t < 0

\* the loop head `while (tries-- > 0)` of mlx90632_read_temp_raw_extended,
\* followed by the check after the loop when the loop is left
ExtendedLoopHead ==
    IF ext_tries > 0
    THEN /\ ext_tries' = ext_tries - 1
         /\ triggers' = triggers + 1
         /\ pc' = "sm_read"
         /\ UNCHANGED ret
    ELSE /\ ext_tries' = ext_tries - 1
         /\ triggers' = triggers
         /\ IF ExtendedTimedOut(ext_tries - 1)
            THEN Finish(-ETIMEDOUT)
            ELSE pc' = "xamb_new" /\ UNCHANGED ret

\* the position that follows p in the extended cycle 17, 18, 19, 17
CycleNext(p) == IF p = 19 THEN 17 ELSE p + 1

\* every position that is not one of the two earlier extended ones ends the loop
ExtendedCycleDone_NotWaiting(v) == v \notin {17, 18}

\* if (start_measurement_ret == 19) break;
ExtendedCycleDone(v) == v = 19

\* the trigger returns v to the function that called it; t, p, s, sr are the
\* loop counter and the poll history as the trigger leaves them.  The
\* trigger's own frame is dropped when it returns into a read operation.
TriggerReturn(v, t, p, s, sr) ==
    /\ start_measurement_ret' = v
    /\ cyclic' = IF call = "read_temp_raw_extended"
                 THEN /\ cyclic
                      /\ v \in {17, 18, 19}
                      /\ triggers > 1 => v = CycleNext(start_measurement_ret)
                 ELSE cyclic
    /\ IF call \in {"start_measurement", "start_measurement_burst"}
       THEN /\ Finish(v)
            /\ tries' = t /\ polls' = p /\ sleeps' = s /\ sawReady' = sr
            /\ UNCHANGED <<ext_tries, triggers>>
       ELSE /\ tries' = 0 /\ polls' = 0 /\ sleeps' = 0 /\ sawReady' = FALSE
            /\ IF v < 0
               THEN Finish(v) /\ UNCHANGED <<ext_tries, triggers>>
               ELSE IF call \in {"read_temp_raw", "read_temp_raw_burst"}
               THEN pc' = "amb_new" /\ UNCHANGED <<ret, ext_tries, triggers>>
               ELSE IF call = "read_temp_raw_extended_burst"
               THEN pc' = "xamb_new" /\ UNCHANGED <<ret, ext_tries, triggers>>
               ELSE \* mlx90632_read_temp_raw_extended
                    IF ExtendedCycleDone(v)
                    THEN /\ UNCHANGED <<ext_tries, triggers>>
                         /\ IF ExtendedTimedOut(ext_tries)
                            THEN Finish(-ETIMEDOUT)
                            ELSE pc' = "xamb_new" /\ UNCHANGED ret
                    ELSE ExtendedLoopHead

Call_start_measurement ==
    /\ Enter("start_measurement", "sm_read")
    /\ ext_tries' = 0
    /\ triggers' = 1
    /\ UNCHANGED <<emVars, devVars, measRate, type, typeSet, typeHalted, programmed>>

\* the bus calls of a trigger before its polling loop, and the coarse sleep
\* of the burst trigger, are logged when the trigger, or its timing
\* computation, is the API call itself
TriggerLog(ev) ==
    log' = IF call \in {"start_measurement", "start_measurement_burst",
                        "calculate_dataset_ready_time"}
           THEN Append(log, ev) ELSE log

\* the status word is written back as it was read
ClearDataReady_Kept(reg) == reg

\* reg_status & (~MLX90632_STAT_DATA_RDY)
ClearDataReady(reg) == reg - BitAnd(reg, MLX90632_STAT_DATA_RDY)

\* ret = mlx90632_i2c_read(MLX90632_REG_STATUS, &reg_status)
StartMeasurementRead ==
    /\ pc = "sm_read"
    /\ \/ \E e \in BusErrs :
            /\ Note(e)
            /\ TriggerLog(Rd(MLX90632_REG_STATUS, 0, e))
            /\ reg_status' = reg_status
            /\ TriggerReturn(e, tries, polls, sleeps, sawReady)
       \/ \E v \in StatusVals :
            /\ Note(0)
            /\ TriggerLog(Rd(MLX90632_REG_STATUS, v, 0))
            /\ reg_status' = v
            /\ pc' = "sm_clear"
            /\ UNCHANGED <<ret, tries, ext_tries, start_measurement_ret, cyclic,
                           polls, sleeps, sawReady, triggers>>
    /\ UNCHANGED <<call, emVars, devVars, measRate, type, typeSet, typeHalted, eeprom_version, channel, channel_old, read, new_value,
                   refresh_time, meas_type, out, eeprom, ctrl, msleeps, ee0, meas, address, programmed>>

\* ret = mlx90632_i2c_write(MLX90632_REG_STATUS, reg_status & (~MLX90632_STAT_DATA_RDY))
StartMeasurementClear ==
    /\ pc = "sm_clear"
    /\ \/ \E e \in BusErrs :
            /\ Note(e)
            /\ TriggerLog(Wr(MLX90632_REG_STATUS, ClearDataReady(reg_status), e))
            /\ TriggerReturn(e, tries, polls, sleeps, sawReady)
       \/ /\ Note(0)
          /\ TriggerLog(Wr(MLX90632_REG_STATUS, ClearDataReady(reg_status), 0))
          /\ tries' = MLX90632_MAX_NUMBER_MESUREMENT_READ_TRIES
          /\ pc' = "sm_poll"
          /\ UNCHANGED <<ret, ext_tries, start_measurement_ret, cyclic,
                         polls, sleeps, sawReady, triggers>>
    /\ UNCHANGED <<call, emVars, devVars, measRate, type, typeSet, typeHalted, eeprom_version, reg_status, channel, channel_old, read,
                   new_value, refresh_time, meas_type, out, eeprom, ctrl,
                   msleeps, ee0, meas, address, programmed>>

\* while (tries-- > 0) { read the status; leave on data ready }
StartMeasurementPoll ==
    /\ pc = "sm_poll"
    /\ tries > 0
    /\ \/ \E e \in BusErrs :
            /\ Note(e)
            /\ reg_status' = reg_status
            /\ TriggerReturn(e, tries - 1, polls + 1, sleeps, sawReady)
       \/ \E v \in StatusVals :
            /\ Note(0)
            /\ reg_status' = v
            /\ IF BitAnd(v, MLX90632_STAT_DATA_RDY) # 0
               THEN TriggerReturn(StartMeasurementResult(tries - 1, v),
                                  tries - 1, polls + 1, sleeps, TRUE)
               ELSE /\ tries' = tries - 1
                    /\ polls' = polls + 1
                    /\ pc' = "sm_sleep"
                    /\ UNCHANGED <<ret, ext_tries, start_measurement_ret, cyclic,
                                   sleeps, sawReady, triggers>>
    /\ UNCHANGED <<call, emVars, devVars, measRate, type, typeSet, typeHalted, eeprom_version, channel, channel_old, read, new_value,
                   refresh_time, meas_type, out, eeprom, ctrl, msleeps, log, ee0, meas, address, programmed>>

\* usleep(10000, 11000)
StartMeasurementSleep ==
    /\ pc = "sm_sleep"
    /\ Note(0)
    /\ sleeps' = sleeps + 1
    /\ pc' = "sm_poll"
    /\ UNCHANGED <<call, ret, emVars, devVars, measRate, type, typeSet, typeHalted, eeprom_version, locals, out, eeprom, ctrl, polls,
                   msleeps, sawReady, triggers, log, ee0, meas, address, programmed>>

\* the loop condition fails: tries-- leaves tries at -1
StartMeasurementExhausted ==
    /\ pc = "sm_poll"
    /\ tries <= 0
    /\ TriggerReturn(StartMeasurementResult(tries - 1, reg_status),
                     tries - 1, polls, sleeps, sawReady)
    /\ UNCHANGED <<call, emVars, devVars, measRate, type, typeSet, typeHalted, eeprom_version, reg_status, channel, channel_old, read,
                   new_value, refresh_time, meas_type, out, eeprom, ctrl,
                   msleeps, log, failed, afterFail, ee0, meas, address, programmed>>

(* ---------------------------------------------------------------------- *)
(* mlx90632_read_temp_ambient_raw, mlx90632_read_temp_object_raw            *)
(* ---------------------------------------------------------------------- *)
\* the burst read passes the decoded cycle position like the continuous read
ObjectChannelArg_FromStatus ==
    IF call = "read_temp_raw_burst" THEN BitAnd(reg_status, MLX90632_STAT_CYCLE_POS) \div 4
    ELSE start_measurement_ret

\* the value mlx90632_read_temp_object_raw is called with
ObjectChannelArg ==
    IF call = "read_temp_raw_burst" THEN 2 ELSE start_measurement_ret

\* the first ambient word is stored into both ambient outputs
StoreAmbientNew_WithOld(o, read_tmp) ==
    [o EXCEPT !.ambient_new = ToInt16(read_tmp), !.ambient_old = ToInt16(read_tmp)]

\* *ambient_new_raw = (int16_t)read_tmp
StoreAmbientNew(o, read_tmp) == [o EXCEPT !.ambient_new = ToInt16(read_tmp)]

\* a RAM read at address a: it fails, or delivers a word
\* ret = mlx90632_i2c_read(MLX90632_RAM_3(1), &read_tmp); *ambient_new_raw = (int16_t)read_tmp
ReadAmbientNew ==
    /\ pc = "amb_new"
    /\ \/ \E e \in BusErrs :
            /\ Note(e)
            /\ log' = Append(log, Rd(MLX90632_RAM_3(1), 0, e))
            /\ Finish(e)
            /\ UNCHANGED out
       \/ \E v \in RamVals :
            /\ Note(0)
            /\ log' = Append(log, Rd(MLX90632_RAM_3(1), v, 0))
            /\ out' = StoreAmbientNew(out, v)
            /\ pc' = "amb_old"
            /\ UNCHANGED ret
    /\ UNCHANGED <<call, emVars, devVars, measRate, type, typeSet, typeHalted, eeprom_version, locals, eeprom, ctrl, polls, sleeps,
                   msleeps, sawReady, triggers, ee0, meas, address, programmed>>

\* ret = mlx90632_i2c_read(MLX90632_RAM_3(2), &read_tmp); *ambient_old_raw = (int16_t)read_tmp
\* then mlx90632_read_temp_object_raw starts with mlx90632_channel_new_select
ReadAmbientOld ==
    /\ pc = "amb_old"
    /\ \/ \E e \in BusErrs :
            /\ Note(e)
            /\ log' = Append(log, Rd(MLX90632_RAM_3(2), 0, e))
            /\ Finish(e)
            /\ UNCHANGED <<out, channel, channel_old>>
       \/ \E v \in RamVals :
            LET sel == mlx90632_channel_new_select(ObjectChannelArg) IN
            /\ Note(0)
            /\ log' = Append(log, Rd(MLX90632_RAM_3(2), v, 0))
            /\ out' = [out EXCEPT !.ambient_old = ToInt16(v)]
            /\ IF sel.ret # 0
               THEN Finish(-EINVAL) /\ UNCHANGED <<channel, channel_old>>
               ELSE /\ channel' = sel.channel_new
                    /\ channel_old' = sel.channel_old
                    /\ pc' = "obj_new2"
                    /\ UNCHANGED ret
    /\ UNCHANGED <<call, emVars, devVars, measRate, type, typeSet, typeHalted, eeprom_version, tries, ext_tries, reg_status,
                   start_measurement_ret, cyclic, read, new_value, refresh_time,
                   meas_type, eeprom, ctrl, polls, sleeps, msleeps, sawReady,
                   triggers, ee0, meas, address, programmed>>

\* the first read of a pair: read = (int16_t)read_tmp
ObjectFirstRead(here, addr, next) ==
    /\ pc = here
    /\ \/ \E e \in BusErrs :
            /\ Note(e)
            /\ log' = Append(log, Rd(addr, 0, e))
            /\ Finish(e)
            /\ UNCHANGED read
       \/ \E v \in RamVals :
            /\ Note(0)
            /\ log' = Append(log, Rd(addr, v, 0))
            /\ read' = ToInt16(v)
            /\ pc' = next
            /\ UNCHANGED ret
    /\ UNCHANGED <<call, emVars, devVars, measRate, type, typeSet, typeHalted, eeprom_version, tries, ext_tries, reg_status,
                   start_measurement_ret, cyclic, channel, channel_old, new_value,
                   refresh_time, meas_type, out, eeprom, ctrl, polls, sleeps,
                   msleeps, sawReady, triggers, ee0, meas, address, programmed>>

\* the sum is formed in 16 bits and wraps around before it is halved
ObjectMean_SumWrapped(r, v) == CDiv(ToInt16(ToUint16(r + ToInt16(v))), 2)

\* the mean stored into an int16_t: (read + (int16_t)read_tmp) / 2
ObjectMean(r, v) == ToInt16(ToUint16(CDiv(r + ToInt16(v), 2)))

\* ret = mlx90632_i2c_read(MLX90632_RAM_2(channel), &read_tmp); read = (int16_t)read_tmp
ReadObjectNew2 == ObjectFirstRead("obj_new2", MLX90632_RAM_2(channel), "obj_new1")

\* ret = mlx90632_i2c_read(MLX90632_RAM_1(channel), &read_tmp); *object_new_raw = mean
ReadObjectNew1 ==
    /\ pc = "obj_new1"
    /\ \/ \E e \in BusErrs :
            /\ Note(e)
            /\ log' = Append(log, Rd(MLX90632_RAM_1(channel), 0, e))
            /\ Finish(e)
            /\ UNCHANGED out
       \/ \E v \in RamVals :
            /\ Note(0)
            /\ log' = Append(log, Rd(MLX90632_RAM_1(channel), v, 0))
            /\ out' = [out EXCEPT !.object_new = ObjectMean(read, v)]
            /\ pc' = "obj_old2"
            /\ UNCHANGED ret
    /\ UNCHANGED <<call, emVars, devVars, measRate, type, typeSet, typeHalted, eeprom_version, locals, eeprom, ctrl, polls, sleeps,
                   msleeps, sawReady, triggers, ee0, meas, address, programmed>>

\* ret = mlx90632_i2c_read(MLX90632_RAM_2(channel_old), &read_tmp); read = (int16_t)read_tmp
ReadObjectOld2 == ObjectFirstRead("obj_old2", MLX90632_RAM_2(channel_old), "obj_old1")

\* ret = mlx90632_i2c_read(MLX90632_RAM_1(channel_old), &read_tmp); *object_old_raw = mean
ReadObjectOld1 ==
    /\ pc = "obj_old1"
    /\ \/ \E e \in BusErrs :
            /\ Note(e)
            /\ log' = Append(log, Rd(MLX90632_RAM_1(channel_old), 0, e))
            /\ Finish(e)
            /\ UNCHANGED out
       \/ \E v \in RamVals :
            /\ Note(0)
            /\ log' = Append(log, Rd(MLX90632_RAM_1(channel_old), v, 0))
            /\ out' = [out EXCEPT !.object_old = ObjectMean(read, v)]
            /\ Finish(0)
    /\ UNCHANGED <<call, emVars, devVars, measRate, type, typeSet, typeHalted, eeprom_version, locals, eeprom, ctrl, polls, sleeps,
                   msleeps, sawReady, triggers, ee0, meas, address, programmed>>

(* ---------------------------------------------------------------------- *)
(* mlx90632_read_temp_raw                                                   *)
(* ---------------------------------------------------------------------- *)
Call_read_temp_raw ==
    /\ Enter("read_temp_raw", "sm_read")
    /\ ext_tries' = 0
    /\ triggers' = 1
    /\ completed' = 0
    /\ UNCHANGED <<emVars, calc, store, measRate, type, typeSet, typeHalted, programmed>>

\* number of measurements the device may complete during one raw read
MaxCompleted == 2

\* the device in continuous mode finishes a measurement on its own, between
\* two bus accesses of the driver after the poll that saw data ready: its
\* cycle position moves on and the RAM slots of that position are rewritten
DeviceMeasures ==
    /\ call = "read_temp_raw"
    /\ pc \in {"amb_new", "amb_old", "obj_new2", "obj_new1", "obj_old2", "obj_old1"}
    /\ completed < MaxCompleted
    /\ completed' = completed + 1
    /\ UNCHANGED <<call, pc, ret, emVars, calc, store, measRate, type, typeSet, typeHalted,
                   eeprom_version, locals, out, eeprom, ctrl, polls, sleeps,
                   msleeps, sawReady, triggers, log, failed, afterFail, ee0,
                   meas, address, programmed>>

\* the channel the device updated last, for a trigger that returned position p
\* of the medical cycle 1, 2, 1, ...
DeviceChannel(p) == ((p - 1 + completed) % 2) + 1

(* ---------------------------------------------------------------------- *)
(* mlx90632_read_temp_ambient_raw_extended,                                 *)
(* mlx90632_read_temp_object_raw_extended                                   *)
(* ---------------------------------------------------------------------- *)
\* ret = mlx90632_i2c_read(MLX90632_RAM_3(17), &read_tmp); *ambient_new_raw = (int16_t)read_tmp
ReadAmbientNewExtended ==
    /\ pc = "xamb_new"
    /\ \/ \E e \in BusErrs :
            /\ Note(e)
            /\ log' = Append(log, Rd(MLX90632_RAM_3(17), 0, e))
            /\ Finish(e)
            /\ UNCHANGED out
       \/ \E v \in RamVals :
            /\ Note(0)
            /\ log' = Append(log, Rd(MLX90632_RAM_3(17), v, 0))
            /\ out' = [out EXCEPT !.ambient_new = ToInt16(v)]
            /\ pc' = "xamb_old"
            /\ UNCHANGED ret
    /\ UNCHANGED <<call, emVars, devVars, measRate, type, typeSet, typeHalted, eeprom_version, locals, eeprom, ctrl, polls, sleeps,
                   msleeps, sawReady, triggers, ee0, meas, address, programmed>>

\* ret = mlx90632_i2c_read(MLX90632_RAM_3(18), &read_tmp); *ambient_old_raw = (int16_t)read_tmp
ReadAmbientOldExtended ==
    /\ pc = "xamb_old"
    /\ \/ \E e \in BusErrs :
            /\ Note(e)
            /\ log' = Append(log, Rd(MLX90632_RAM_3(18), 0, e))
            /\ Finish(e)
            /\ UNCHANGED out
       \/ \E v \in RamVals :
            /\ Note(0)
            /\ log' = Append(log, Rd(MLX90632_RAM_3(18), v, 0))
            /\ out' = [out EXCEPT !.ambient_old = ToInt16(v)]
            /\ pc' = "xobj1"
            /\ UNCHANGED ret
    /\ UNCHANGED <<call, emVars, devVars, measRate, type, typeSet, typeHalted, eeprom_version, locals, eeprom, ctrl, polls, sleeps,
                   msleeps, sawReady, triggers, ee0, meas, address, programmed>>

\* the address of the i-th object read
ExtendedObjectAddr(i) ==
    CASE i = 1 -> MLX90632_RAM_1(17)
      [] i = 2 -> MLX90632_RAM_2(17)
      [] i = 3 -> MLX90632_RAM_1(18)
      [] i = 4 -> MLX90632_RAM_2(18)
      [] i = 5 -> MLX90632_RAM_1(19)
      [] i = 6 -> MLX90632_RAM_2(19)

\* the third word is added instead of subtracted
ExtendedAccumulate_ThirdAdded(i, r, v) ==
    LET x == IF v >= 32768 THEN v - 65536 ELSE v IN
    CASE i = 1 -> x
      [] i = 2 -> r - x
      [] i = 3 -> r + x
      [] i = 4 -> (IF r + x >= 0 THEN (r + x) \div 2 ELSE -((-(r + x)) \div 2))
      [] i = 5 -> r + x
      [] i = 6 -> r + x

\* the accumulator `read` after the i-th object read delivered the word v.
\* read is an int32_t and every operand a 16-bit value, so its magnitude
\* stays below 2^18 and no int32_t operation wraps.
ExtendedAccumulate(i, r, v) ==
    CASE i = 1 -> ToInt16(v)
      [] i = 2 -> r - ToInt16(v)
      [] i = 3 -> r - ToInt16(v)
      [] i = 4 -> CDiv(r + ToInt16(v), 2)
      [] i = 5 -> r + ToInt16(v)
      [] i = 6 -> r + ToInt16(v)

ExtendedLabel(i) ==
    CASE i = 1 -> "xobj1" [] i = 2 -> "xobj2" [] i = 3 -> "xobj3"
      [] i = 4 -> "xobj4" [] i = 5 -> "xobj5" [] i = 6 -> "xobj6"

\* only the upper limit is checked
ExtendedOutOfRange_UpperOnly(r) == r > 32767

\* if (read > 32767 || read < -32768) return -EINVAL
ExtendedOutOfRange(r) == r > 32767 \/ r < -32768

\* the i-th read of mlx90632_read_temp_object_raw_extended; the sixth is
\* followed by the range check and the store *object_new_raw = (int16_t)read
ReadObjectExtended(i) ==
    /\ pc = ExtendedLabel(i)
    /\ \/ \E e \in BusErrs :
            /\ Note(e)
            /\ log' = Append(log, Rd(ExtendedObjectAddr(i), 0, e))
            /\ Finish(e)
            /\ UNCHANGED <<read, out>>
       \/ \E v \in RamVals :
            LET acc == ExtendedAccumulate(i, read, v) IN
            /\ Note(0)
            /\ log' = Append(log, Rd(ExtendedObjectAddr(i), v, 0))
            /\ read' = acc
            /\ IF i < 6
               THEN pc' = ExtendedLabel(i + 1) /\ UNCHANGED <<ret, out>>
               ELSE IF ExtendedOutOfRange(acc)
               THEN Finish(-EINVAL) /\ UNCHANGED out
               ELSE /\ out' = [out EXCEPT !.object_new = ToInt16(ToUint16(acc))]
                    /\ Finish(0)
    /\ UNCHANGED <<call, emVars, devVars, measRate, type, typeSet, typeHalted, eeprom_version, tries, ext_tries, reg_status,
                   start_measurement_ret, cyclic, channel, channel_old, new_value,
                   refresh_time, meas_type, eeprom, ctrl, polls, sleeps,
                   msleeps, sawReady, triggers, ee0, meas, address, programmed>>

ReadObjectExtended1 == ReadObjectExtended(1)
ReadObjectExtended2 == ReadObjectExtended(2)
ReadObjectExtended3 == ReadObjectExtended(3)
ReadObjectExtended4 == ReadObjectExtended(4)
ReadObjectExtended5 == ReadObjectExtended(5)
ReadObjectExtended6 == ReadObjectExtended(6)

\* the object read called on its own, as the unit tests do
Call_read_temp_object_raw_extended ==
    /\ Enter("read_temp_object_raw_extended", "xobj1")
    /\ ext_tries' = 0
    /\ triggers' = 0
    /\ UNCHANGED <<emVars, devVars, measRate, type, typeSet, typeHalted, programmed>>

(* ---------------------------------------------------------------------- *)
(* mlx90632_read_temp_raw_extended                                          *)
(* ---------------------------------------------------------------------- *)
\* int tries = 3; the first pass through `while (tries-- > 0)` starts a trigger
Call_read_temp_raw_extended ==
    /\ Enter("read_temp_raw_extended", "sm_read")
    /\ ext_tries' = ExtendedTries - 1
    /\ triggers' = 1
    /\ UNCHANGED <<emVars, devVars, measRate, type, typeSet, typeHalted, programmed>>

(* ---------------------------------------------------------------------- *)
(* mlx90632_start_measurement_burst                                         *)
(* ---------------------------------------------------------------------- *)
\* the power mode is only tested for sleeping-step
GetMeasTypeResult_PowerUnchecked(reg_temp) ==
    LET reg_ctrl == MLX90632_MTYP(reg_temp)
        pwr == MLX90632_CFG_PWR(reg_temp)
    IN  IF reg_ctrl # MLX90632_MTYP_MEDICAL /\ reg_ctrl # MLX90632_MTYP_EXTENDED
        THEN -EINVAL
        ELSE IF pwr = MLX90632_PWR_STATUS_SLEEP_STEP
        THEN MLX90632_BURST_MEASUREMENT_TYPE(reg_ctrl)
        ELSE reg_ctrl

\* the decoding done by mlx90632_get_meas_type on the word it read
GetMeasTypeResult(reg_temp) ==
    LET reg_ctrl == MLX90632_MTYP(reg_temp)
        pwr == MLX90632_CFG_PWR(reg_temp)
    IN  IF reg_ctrl # MLX90632_MTYP_MEDICAL /\ reg_ctrl # MLX90632_MTYP_EXTENDED
        THEN -EINVAL
        ELSE IF pwr = MLX90632_PWR_STATUS_SLEEP_STEP
        THEN MLX90632_BURST_MEASUREMENT_TYPE(reg_ctrl)
        ELSE IF pwr # MLX90632_PWR_STATUS_CONTINUOUS
        THEN -EINVAL
        ELSE reg_ctrl

\* the rate field is shifted by 7 instead of 8
MeasurementTime_WrongShift(reg) ==
    MLX90632_MEAS_MAX_TIME \div
        Pow2(BitAnd(reg, MLX90632_EE_REFRESH_RATE_MASK) \div 128)

\* the value mlx90632_get_measurement_time computes from a timing entry
MeasurementTime(reg) ==
    MLX90632_MEAS_MAX_TIME \div
        Pow2(BitAnd(reg, MLX90632_EE_REFRESH_RATE_MASK) \div 256)

\* the timing entry read by the i-th mlx90632_get_measurement_time
TimingEntry(t, i) ==
    IF t = MLX90632_MTYP_MEDICAL_BURST
    THEN (CASE i = 1 -> MLX90632_EE_MEDICAL_MEAS1
            [] i = 2 -> MLX90632_EE_MEDICAL_MEAS2)
    ELSE (CASE i = 1 -> MLX90632_EE_EXTENDED_MEAS1
            [] i = 2 -> MLX90632_EE_EXTENDED_MEAS2
            [] i = 3 -> MLX90632_EE_EXTENDED_MEAS3)

\* the start-burst bit is not set
BurstStartWord_Unchanged(reg) == reg

\* the word written is the start-burst bit alone
BurstStartWord_BitOnly(reg) == MLX90632_START_BURST_MEAS

\* reg |= MLX90632_START_BURST_MEAS
BurstStartWord(reg) == BitOr(reg, MLX90632_START_BURST_MEAS)

\* the measurement type is not checked
IsBurstType_Unchecked(t) == TRUE

\* the negation of the test that makes mlx90632_calculate_dataset_ready_time
\* return -EINVAL
IsBurstType(t) ==
    ~((t # MLX90632_MTYP_MEDICAL_BURST) /\ (t # MLX90632_MTYP_EXTENDED_BURST))

Call_start_measurement_burst ==
    /\ Enter("start_measurement_burst", "sb_read")
    /\ ext_tries' = 0
    /\ triggers' = 1
    /\ UNCHANGED <<emVars, devVars, measRate, type, typeSet, typeHalted, programmed>>

\* ret = mlx90632_i2c_read(MLX90632_REG_CTRL, &reg)
BurstReadCtrl ==
    /\ pc = "sb_read"
    /\ \/ \E e \in BusErrs :
            /\ Note(e)
            /\ TriggerLog(Rd(MLX90632_REG_CTRL, 0, e))
            /\ reg_status' = reg_status
            /\ TriggerReturn(e, tries, polls, sleeps, sawReady)
       \/ /\ Note(0)
          /\ TriggerLog(Rd(MLX90632_REG_CTRL, ctrl, 0))
          /\ reg_status' = ctrl
          /\ pc' = "sb_write"
          /\ UNCHANGED <<ret, tries, ext_tries, start_measurement_ret, cyclic,
                         polls, sleeps, sawReady, triggers>>
    /\ UNCHANGED <<call, emVars, devVars, measRate, type, typeSet, typeHalted, eeprom_version, channel, channel_old, read, new_value,
                   refresh_time, meas_type, out, eeprom, ctrl, msleeps, ee0, meas, address, programmed>>

\* reg |= MLX90632_START_BURST_MEAS; ret = mlx90632_i2c_write(MLX90632_REG_CTRL, reg)
BurstWriteCtrl ==
    /\ pc = "sb_write"
    /\ reg_status' = BurstStartWord(reg_status)
    /\ \/ \E e \in BusErrs :
            /\ Note(e)
            /\ TriggerLog(Wr(MLX90632_REG_CTRL, BurstStartWord(reg_status), e))
            /\ ctrl' = ctrl
            /\ TriggerReturn(e, tries, polls, sleeps, sawReady)
       \/ /\ Note(0)
          /\ TriggerLog(Wr(MLX90632_REG_CTRL, BurstStartWord(reg_status), 0))
          /\ ctrl' = BurstStartWord(reg_status)
          /\ pc' = "sb_type"
          /\ UNCHANGED <<ret, tries, ext_tries, start_measurement_ret, cyclic,
                         polls, sleeps, sawReady, triggers>>
    /\ UNCHANGED <<call, emVars, devVars, measRate, type, typeSet, typeHalted, eeprom_version, channel, channel_old, read, new_value,
                   refresh_time, meas_type, out, eeprom, msleeps, ee0, meas, address, programmed>>

\* mlx90632_calculate_dataset_ready_time: ret = mlx90632_get_meas_type(),
\* which reads the control register, then the check for a burst type
BurstGetMeasType ==
    /\ pc = "sb_type"
    /\ \/ \E e \in BusErrs :
            /\ Note(e)
            /\ TriggerLog(Rd(MLX90632_REG_CTRL, 0, e))
            /\ meas_type' = meas_type
            /\ TriggerReturn(e, tries, polls, sleeps, sawReady)
       \/ LET t == GetMeasTypeResult(ctrl) IN
          /\ Note(0)
          /\ TriggerLog(Rd(MLX90632_REG_CTRL, ctrl, 0))
          /\ meas_type' = t
          /\ IF t < 0
             THEN TriggerReturn(t, tries, polls, sleeps, sawReady)
             ELSE IF ~IsBurstType(t)
             THEN TriggerReturn(-EINVAL, tries, polls, sleeps, sawReady)
             ELSE /\ pc' = "sb_time1"
                  /\ UNCHANGED <<ret, tries, ext_tries, start_measurement_ret, cyclic,
                                 polls, sleeps, sawReady, triggers>>
    /\ UNCHANGED <<call, emVars, devVars, measRate, type, typeSet, typeHalted, eeprom_version, reg_status, channel, channel_old, read,
                   new_value, refresh_time, out, eeprom, ctrl, msleeps, ee0, meas, address, programmed>>

BurstLabel(i) ==
    CASE i = 1 -> "sb_time1" [] i = 2 -> "sb_time2" [] i = 3 -> "sb_time3"
      [] i = 4 -> "sb_msleep"

\* the i-th ret = mlx90632_get_measurement_time(entry), added to refresh_time
BurstMeasurementTime(i) ==
    /\ pc = BurstLabel(i)
    /\ \/ \E e \in BusErrs :
            /\ Note(e)
            /\ TriggerLog(Rd(TimingEntry(meas_type, i), 0, e))
            /\ refresh_time' = refresh_time
            /\ TriggerReturn(e, tries, polls, sleeps, sawReady)
       \/ LET sum == (IF i = 1 THEN 0 ELSE refresh_time)
                         + MeasurementTime(eeprom[TimingEntry(meas_type, i)])
              last == i = 3 \/ (i = 2 /\ meas_type = MLX90632_MTYP_MEDICAL_BURST)
          IN  /\ Note(0)
              /\ TriggerLog(Rd(TimingEntry(meas_type, i),
                               eeprom[TimingEntry(meas_type, i)], 0))
              /\ refresh_time' = sum
              /\ IF last /\ call = "calculate_dataset_ready_time"
                 THEN Finish(sum)
                 ELSE /\ pc' = IF last THEN "sb_msleep" ELSE BurstLabel(i + 1)
                      /\ UNCHANGED ret
              /\ UNCHANGED <<tries, ext_tries, start_measurement_ret, cyclic,
                             polls, sleeps, sawReady, triggers>>
    /\ UNCHANGED <<call, emVars, devVars, measRate, type, typeSet, typeHalted, eeprom_version, reg_status, channel, channel_old, read,
                   new_value, meas_type, out, eeprom, ctrl, msleeps, ee0, meas, address, programmed>>

BurstMeasurementTime1 == BurstMeasurementTime(1)
BurstMeasurementTime2 == BurstMeasurementTime(2)
BurstMeasurementTime3 == BurstMeasurementTime(3)

\* msleep(ret)
BurstMsleep ==
    /\ pc = "sb_msleep"
    /\ Note(0)
    /\ TriggerLog(Ms(refresh_time))
    /\ msleeps' = msleeps + 1
    /\ tries' = MLX90632_MAX_NUMBER_MESUREMENT_READ_TRIES
    /\ pc' = "sb_poll"
    /\ UNCHANGED <<call, ret, emVars, devVars, measRate, type, typeSet, typeHalted, eeprom_version, ext_tries, reg_status,
                   start_measurement_ret, cyclic, channel, channel_old, read,
                   new_value, refresh_time, meas_type, out, eeprom, ctrl,
                   polls, sleeps, sawReady, triggers, ee0, meas, address, programmed>>

\* off by one: busy clear seen on the last permitted poll counts as a timeout
BurstResult_LastPollLost(t) == IF t <= 0 THEN -ETIMEDOUT ELSE 0

\* the code after the polling loop, with tries as the loop left it
BurstResult(t) == IF t < 0 THEN -ETIMEDOUT ELSE 0

\* while (tries-- > 0) { read the status; leave when the device is not busy }
BurstPoll ==
    /\ pc = "sb_poll"
    /\ tries > 0
    /\ \/ \E e \in BusErrs :
            /\ Note(e)
            /\ reg_status' = reg_status
            /\ TriggerReturn(e, tries - 1, polls + 1, sleeps, sawReady)
       \/ \E v \in StatusVals :
            /\ Note(0)
            /\ reg_status' = v
            /\ IF BitAnd(v, MLX90632_STAT_BUSY) = 0
               THEN TriggerReturn(BurstResult(tries - 1),
                                  tries - 1, polls + 1, sleeps, TRUE)
               ELSE /\ tries' = tries - 1
                    /\ polls' = polls + 1
                    /\ pc' = "sb_sleep"
                    /\ UNCHANGED <<ret, ext_tries, start_measurement_ret, cyclic,
                                   sleeps, sawReady, triggers>>
    /\ UNCHANGED <<call, emVars, devVars, measRate, type, typeSet, typeHalted, eeprom_version, channel, channel_old, read, new_value,
                   refresh_time, meas_type, out, eeprom, ctrl, msleeps, log, ee0, meas, address, programmed>>

\* usleep(10000, 11000)
BurstSleep ==
    /\ pc = "sb_sleep"
    /\ Note(0)
    /\ sleeps' = sleeps + 1
    /\ pc' = "sb_poll"
    /\ UNCHANGED <<call, ret, emVars, devVars, measRate, type, typeSet, typeHalted, eeprom_version, locals, out, eeprom, ctrl, polls,
                   msleeps, sawReady, triggers, log, ee0, meas, address, programmed>>

\* the loop condition fails: tries-- leaves tries at -1
BurstExhausted ==
    /\ pc = "sb_poll"
    /\ tries <= 0
    /\ TriggerReturn(BurstResult(tries - 1), tries - 1, polls, sleeps, sawReady)
    /\ UNCHANGED <<call, emVars, devVars, measRate, type, typeSet, typeHalted, eeprom_version, reg_status, channel, channel_old, read,
                   new_value, refresh_time, meas_type, out, eeprom, ctrl,
                   msleeps, log, failed, afterFail, ee0, meas, address, programmed>>

(* ---------------------------------------------------------------------- *)
(* mlx90632_read_temp_raw_burst, mlx90632_read_temp_raw_extended_burst      *)
(* ---------------------------------------------------------------------- *)
Call_read_temp_raw_burst ==
    /\ Enter("read_temp_raw_burst", "sb_read")
    /\ ext_tries' = 0
    /\ triggers' = 1
    /\ UNCHANGED <<emVars, devVars, measRate, type, typeSet, typeHalted, programmed>>

Call_read_temp_raw_extended_burst ==
    /\ Enter("read_temp_raw_extended_burst", "sb_read")
    /\ ext_tries' = 0
    /\ triggers' = 1
    /\ UNCHANGED <<emVars, devVars, measRate, type, typeSet, typeHalted, programmed>>

(* ---------------------------------------------------------------------- *)
(* mlx90632_set_refresh_rate, mlx90632_get_refresh_rate                     *)
(* ---------------------------------------------------------------------- *)
Call_set_refresh_rate ==
    /\ \E r \in MeasRates : measRate' = r
    /\ UNCHANGED <<emVars, devVars, type, typeSet, typeHalted>>
    /\ Enter("set_refresh_rate", "rr_read1")
    /\ ext_tries' = 0
    /\ triggers' = 0
    /\ programmed' = -1

\* the entry is programmed whether or not its value changes
NeedsWrite_Always(old_reg, new_reg) == TRUE

\* if (meas1 != new_value) / if (meas2 != new_value)
NeedsWrite(old_reg, new_reg) == old_reg # new_reg

\* the result of programming the first entry is not checked
WriteEepromReturn_Unchecked(r) ==
    IF address = MLX90632_EE_MEDICAL_MEAS1
    THEN pc' = "rr_read2" /\ UNCHANGED <<ret, programmed>>
    ELSE Finish(r) /\ programmed' = IF r = 0 THEN measRate ELSE -1

\* mlx90632_write_eeprom(address, new_value) returned r to mlx90632_set_refresh_rate
WriteEepromReturn(r) ==
    IF address = MLX90632_EE_MEDICAL_MEAS1 /\ r >= 0
    THEN pc' = "rr_read2" /\ UNCHANGED <<ret, programmed>>
    ELSE Finish(r) /\ programmed' = IF r = 0 THEN measRate ELSE -1

\* ret = mlx90632_i2c_read(entry, &meas); new_value = MLX90632_NEW_REG_VALUE(...);
\* if (meas != new_value) mlx90632_write_eeprom(entry, new_value) is entered
RefreshRateRead(here, entry) ==
    /\ pc = here
    /\ \/ \E e \in BusErrs :
            /\ Note(e)
            /\ log' = Append(log, Rd(entry, 0, e))
            /\ Finish(e)
            /\ UNCHANGED <<meas, new_value, address, programmed>>
       \/ LET v == eeprom[entry]
              nv == MLX90632_NEW_REG_VALUE(v, measRate,
                                           MLX90632_EE_REFRESH_RATE_START,
                                           MLX90632_EE_REFRESH_RATE_SHIFT)
          IN  /\ Note(0)
              /\ log' = Append(log, Rd(entry, v, 0))
              /\ meas' = v
              /\ new_value' = nv
              /\ IF NeedsWrite(v, nv)
                 THEN /\ address' = entry
                      /\ pc' = "ee_unlock1"
                      /\ UNCHANGED <<ret, programmed>>
                 ELSE /\ address' = address
                      /\ IF entry = MLX90632_EE_MEDICAL_MEAS1
                         THEN pc' = "rr_read2" /\ UNCHANGED <<ret, programmed>>
                         ELSE Finish(0) /\ programmed' = measRate
    /\ UNCHANGED <<call, emVars, devVars, measRate, type, typeSet, typeHalted, eeprom_version, tries, ext_tries, reg_status,
                   start_measurement_ret, cyclic, channel, channel_old, read,
                   refresh_time, meas_type, out, eeprom, ctrl, polls, sleeps,
                   msleeps, sawReady, triggers, ee0>>

RefreshRateRead1 == RefreshRateRead("rr_read1", MLX90632_EE_MEDICAL_MEAS1)

RefreshRateRead2 == RefreshRateRead("rr_read2", MLX90632_EE_MEDICAL_MEAS2)

\* mlx90632_unlock_eeporm: mlx90632_i2c_write(0x3005, MLX90632_EEPROM_WRITE_KEY)
EepromUnlock(here, next) ==
    /\ pc = here
    /\ \/ \E e \in BusErrs :
            /\ Note(e)
            /\ log' = Append(log, Wr(MLX90632_REG_EE_UNLOCK, MLX90632_EEPROM_WRITE_KEY, e))
            /\ WriteEepromReturn(e)
       \/ /\ Note(0)
          /\ log' = Append(log, Wr(MLX90632_REG_EE_UNLOCK, MLX90632_EEPROM_WRITE_KEY, 0))
          /\ pc' = next
          /\ UNCHANGED <<ret, programmed>>
    /\ UNCHANGED <<call, emVars, devVars, measRate, type, typeSet, typeHalted, eeprom_version, locals, out, eeprom, ctrl, polls, sleeps,
                   msleeps, sawReady, triggers, ee0, meas, address>>

EepromUnlockErase == EepromUnlock("ee_unlock1", "ee_erase")
EepromUnlockWrite == EepromUnlock("ee_unlock2", "ee_write")

\* mlx90632_i2c_write(address, data); a successful write is kept by the EEPROM
EepromStore(here, data, next) ==
    /\ pc = here
    /\ \/ \E e \in BusErrs :
            /\ Note(e)
            /\ log' = Append(log, Wr(address, data, e))
            /\ eeprom' = eeprom
            /\ WriteEepromReturn(e)
       \/ /\ Note(0)
          /\ log' = Append(log, Wr(address, data, 0))
          /\ eeprom' = [eeprom EXCEPT ![address] = data]
          /\ pc' = next
          /\ UNCHANGED <<ret, programmed>>
    /\ UNCHANGED <<call, emVars, devVars, measRate, type, typeSet, typeHalted, eeprom_version, locals, out, ctrl, polls, sleeps,
                   msleeps, sawReady, triggers, ee0, meas, address>>

\* the erase step writes the data instead of 0
EepromErase_WritesData == EepromStore("ee_erase", new_value, "ee_wait1")

\* mlx90632_erase_eeprom: ret = mlx90632_i2c_write(address, 0x00)
EepromErase == EepromStore("ee_erase", 0, "ee_wait1")

\* the value read from the entry is written back
EepromWrite_WritesOld == EepromStore("ee_write", meas, "ee_wait2")

\* mlx90632_write_eeprom: ret = mlx90632_i2c_write(address, data)
EepromWrite == EepromStore("ee_write", new_value, "ee_wait2")

\* the loop is left although the status word shows EEPROM busy
EepromStillBusy_Never(v) == FALSE

\* reg_status & MLX90632_STAT_EE_BUSY
EepromStillBusy(v) == BitAnd(v, MLX90632_STAT_EE_BUSY) # 0

\* mlx90632_wait_for_eeprom_not_busy: one status read of the loop
\*   ret = read; while (ret >= 0 && reg_status & MLX90632_STAT_EE_BUSY) ret = read;
\* after the first wait mlx90632_write_eeprom goes on, after the second it returns.
\* The loop has no bound: the first MaxEEBusy busy reads of a wait are logged
\* and counted in polls, every later one only moves polls between MaxEEBusy
\* and MaxEEBusy + 1.
EepromWait(here, last) ==
    /\ pc = here
    /\ \/ \E e \in BusErrs :
            /\ Note(e)
            /\ log' = Append(log, Rd(MLX90632_REG_STATUS, 0, e))
            /\ reg_status' = reg_status
            /\ polls' = 0
            /\ WriteEepromReturn(e)
       \/ \E v \in EEStatusVals :
            /\ Note(0)
            /\ reg_status' = v
            /\ IF EepromStillBusy(v)
               THEN /\ IF polls < MaxEEBusy
                       THEN /\ log' = Append(log, Rd(MLX90632_REG_STATUS, v, 0))
                            /\ polls' = polls + 1
                       ELSE /\ log' = log
                            /\ polls' = IF polls = MaxEEBusy
                                        THEN MaxEEBusy + 1 ELSE MaxEEBusy
                    /\ pc' = here
                    /\ UNCHANGED <<ret, programmed>>
               ELSE /\ log' = Append(log, Rd(MLX90632_REG_STATUS, v, 0))
                    /\ polls' = 0
                    /\ IF last
                       THEN WriteEepromReturn(0)
                       ELSE pc' = "ee_unlock2" /\ UNCHANGED <<ret, programmed>>
    /\ UNCHANGED <<call, emVars, devVars, measRate, type, typeSet, typeHalted, eeprom_version, tries, ext_tries, start_measurement_ret, cyclic,
                   channel, channel_old, read, new_value, refresh_time,
                   meas_type, out, eeprom, ctrl, sleeps, msleeps, sawReady,
                   triggers, ee0, meas, address>>

EepromWaitErased == EepromWait("ee_wait1", FALSE)
EepromWaitWritten == EepromWait("ee_wait2", TRUE)

Call_get_refresh_rate ==
    /\ Enter("get_refresh_rate", "gr_read")
    /\ ext_tries' = 0
    /\ triggers' = 0
    /\ UNCHANGED <<emVars, devVars, measRate, type, typeSet, typeHalted, programmed>>

\* the bus error is handed to the caller
GetRefreshRateFailure_BusError(e) == e

\* if (ret < 0) return MLX90632_MEAS_HZ_ERROR
GetRefreshRateFailure(e) == MLX90632_MEAS_HZ_ERROR

\* ret = mlx90632_i2c_read(MLX90632_EE_MEDICAL_MEAS1, &meas1)
GetRefreshRate ==
    /\ pc = "gr_read"
    /\ \/ \E e \in BusErrs :
            /\ Note(e)
            /\ log' = Append(log, Rd(MLX90632_EE_MEDICAL_MEAS1, 0, e))
            /\ meas' = meas
            /\ Finish(GetRefreshRateFailure(e))
       \/ /\ Note(0)
          /\ log' = Append(log, Rd(MLX90632_EE_MEDICAL_MEAS1,
                                   eeprom[MLX90632_EE_MEDICAL_MEAS1], 0))
          /\ meas' = eeprom[MLX90632_EE_MEDICAL_MEAS1]
          /\ Finish(MLX90632_REFRESH_RATE(eeprom[MLX90632_EE_MEDICAL_MEAS1]))
    /\ UNCHANGED <<call, emVars, devVars, measRate, type, typeSet, typeHalted, eeprom_version, locals, out, eeprom, ctrl, polls, sleeps,
                   msleeps, sawReady, triggers, ee0, address, programmed>>

(* ---------------------------------------------------------------------- *)
(* mlx90632_init                                                            *)
(* ---------------------------------------------------------------------- *)
\* EEPROM version words: 0x0105 and 0x0305 (DSP version 5), 0x0505 and
\* 0x8505 (DSP version 5 with the extended-range key), 0x0103 and 0x0500
\* (another DSP version)
VersionVals == {261, 773, 1285, 34053, 259, 1280}

\* what mlx90632_init leaves alone
initFrame == <<call, emVars, devVars, measRate, type, typeSet, typeHalted, tries, ext_tries,
               start_measurement_ret, cyclic, channel, channel_old, read, new_value,
               refresh_time, meas_type, out, eeprom, ctrl, polls, sleeps,
               msleeps, sawReady, triggers, ee0, meas, address, programmed>>

Call_init ==
    /\ Enter("init", "in_version")
    /\ ext_tries' = 0
    /\ triggers' = 0
    /\ UNCHANGED <<emVars, devVars, measRate, type, typeSet, typeHalted, programmed>>

\* the DSP version is looked for in the high byte
UnsupportedVersion_HighByte(version) ==
    BitAnd(version, 65280) \div 256 # MLX90632_DSPv5

\* (eeprom_version & 0x00FF) != MLX90632_DSPv5
UnsupportedVersion(version) == BitAnd(version, 255) # MLX90632_DSPv5

\* ret = mlx90632_i2c_read(MLX90632_EE_VERSION, &eeprom_version), then the
\* test of the DSP version
InitReadVersion ==
    /\ pc = "in_version"
    /\ \/ \E e \in BusErrs :
            /\ Note(e)
            /\ log' = Append(log, Rd(MLX90632_EE_VERSION, 0, e))
            /\ eeprom_version' = eeprom_version
            /\ Finish(e)
       \/ \E v \in VersionVals :
            /\ Note(0)
            /\ log' = Append(log, Rd(MLX90632_EE_VERSION, v, 0))
            /\ eeprom_version' = v
            /\ IF UnsupportedVersion(v)
               THEN Finish(-EPROTONOSUPPORT)
               ELSE pc' = "in_status" /\ UNCHANGED ret
    /\ UNCHANGED <<initFrame, reg_status>>

\* ret = mlx90632_i2c_read(MLX90632_REG_STATUS, &reg_status)
InitReadStatus ==
    /\ pc = "in_status"
    /\ \/ \E e \in BusErrs :
            /\ Note(e)
            /\ log' = Append(log, Rd(MLX90632_REG_STATUS, 0, e))
            /\ reg_status' = reg_status
            /\ Finish(e)
       \/ \E v \in StatusVals :
            /\ Note(0)
            /\ log' = Append(log, Rd(MLX90632_REG_STATUS, v, 0))
            /\ reg_status' = v
            /\ pc' = "in_clear"
            /\ UNCHANGED ret
    /\ UNCHANGED <<initFrame, eeprom_version>>

\* the extended-range key is compared with the whole high byte
InitResult_KeyWithBit15(version) ==
    IF BitAnd(version, 65280) = MLX90632_XTD_RNG_KEY THEN ERANGE ELSE 0

\* the value mlx90632_init returns once the status register is cleared
InitResult(version) ==
    IF BitAnd(version, 32512) = MLX90632_XTD_RNG_KEY THEN ERANGE ELSE 0

\* ret = mlx90632_i2c_write(MLX90632_REG_STATUS, reg_status & ~(MLX90632_STAT_DATA_RDY)),
\* then the test of the extended-range key
InitClearStatus ==
    /\ pc = "in_clear"
    /\ LET w == reg_status - BitAnd(reg_status, MLX90632_STAT_DATA_RDY)
       IN  \/ \E e \in BusErrs :
                /\ Note(e)
                /\ log' = Append(log, Wr(MLX90632_REG_STATUS, w, e))
                /\ Finish(e)
           \/ /\ Note(0)
              /\ log' = Append(log, Wr(MLX90632_REG_STATUS, w, 0))
              /\ Finish(InitResult(eeprom_version))
    /\ UNCHANGED <<initFrame, reg_status, eeprom_version>>

(* ---------------------------------------------------------------------- *)
(* mlx90632_set_emissivity, mlx90632_get_emissivity                         *)
(* ---------------------------------------------------------------------- *)
\* arguments of mlx90632_set_emissivity: 0.0, -0.0, 0.001, 0.1, 0.5, 0.8,
\* 0.999, 1.0, 2.5, -1.0 and NaN
EmissivityVals ==
    {Double(FALSE, FALSE, m) : m \in {0, 1, 100, 500, 800, 999, 1000, 2500}}
        \cup {Double(FALSE, TRUE, 0), Double(FALSE, TRUE, 1000), Double(TRUE, FALSE, 0)}

\* every value that is not positive counts as unset
IsZeroDouble_NotPositive(d) == ~d.nan /\ (d.mag = 0 \/ d.neg)

\* the two doubles are compared bit by bit: -0.0 is not 0.0
IsZeroDouble_SignChecked(d) == ~d.nan /\ ~d.neg /\ d.mag = 0

\* the comparison d == 0.0 of two doubles: -0.0 equals 0.0, NaN equals nothing
IsZeroDouble(d) == ~d.nan /\ d.mag = 0

\* void mlx90632_set_emissivity(double value) { emissivity = value; }
mlx90632_set_emissivity ==
    /\ Enter("set_emissivity", "done")
    /\ \E v \in EmissivityVals :
          /\ value' = v
          /\ emissivity' = v
    /\ everSet' = TRUE
    /\ ext_tries' = 0
    /\ triggers' = 0
    /\ UNCHANGED <<emissivity_ret, devVars, measRate, type, typeSet, typeHalted, programmed>>

\* double mlx90632_get_emissivity(void)
mlx90632_get_emissivity ==
    /\ Enter("get_emissivity", "done")
    /\ emissivity_ret' = IF IsZeroDouble(emissivity) THEN DoubleOne ELSE emissivity
    /\ ext_tries' = 0
    /\ triggers' = 0
    /\ UNCHANGED <<emissivity, value, everSet, devVars, measRate, type, typeSet, typeHalted, programmed>>

(* ---------------------------------------------------------------------- *)
(* mlx90632_calc_temp_object, mlx90632_calc_temp_object_reflected,          *)
(* mlx90632_calc_temp_object_extended, with mlx90632_set_emissivity called  *)
(* from another thread while they run                                       *)
(* ---------------------------------------------------------------------- *)
\* values the other thread sets: 0.0, 0.5 and 0.8
RacingVals == {Double(FALSE, FALSE, m) : m \in {0, 500, 800}}

CalcFunctions == {"object", "reflected", "extended"}

\* what the calculation and the concurrent setter leave alone
driverFrame == <<call, pc, ret, measRate, type, typeSet, typeHalted, eeprom_version,
                 locals, out, eeprom, ctrl, polls, sleeps, msleeps, sawReady,
                 triggers, log, failed, afterFail, ee0, meas, address, programmed,
                 emissivity_ret, completed>>

\* the other thread begins emissivity = value: the store is not atomic
SetEmissivityBegin ==
    /\ ~store.busy
    /\ \E v \in RacingVals : store' = [busy |-> TRUE, data |-> v]
    /\ UNCHANGED <<driverFrame, emissivity, value, everSet, calc>>

\* the store is complete
SetEmissivityEnd ==
    /\ store.busy
    /\ emissivity' = store.data
    /\ value' = store.data
    /\ everSet' = TRUE
    /\ store' = [store EXCEPT !.busy = FALSE]
    /\ UNCHANGED <<driverFrame, calc>>

\* a load of the static variable: without synchronisation it is a data race
\* with a store under way, and delivers the old value, the new one or a
\* mixture of the two
LoadedEmissivity ==
    IF store.busy THEN {emissivity, store.data} \cup RacingVals ELSE {emissivity}

\* one of the three calculations is entered; temp = 25.0
CalcStart ==
    /\ calc.pc \in {"idle", "done"}
    /\ \E f \in CalcFunctions :
          calc' = [pc |-> "get_test", fn |-> f, tmp_emi |-> DoubleZero,
                   first |-> DoubleZero, i |-> 0, used |-> {}, loads |-> 0]
    /\ UNCHANGED <<driverFrame, emissivity, value, everSet, store>>

\* double tmp_emi = mlx90632_get_emissivity(): if (emissivity == 0.0) return 1.0;
CalcGetEmissivityTest ==
    /\ calc.pc = "get_test"
    /\ \E v \in LoadedEmissivity :
          calc' = IF IsZeroDouble(v)
                  THEN [calc EXCEPT !.pc = "prepare", !.tmp_emi = DoubleOne,
                                    !.first = v, !.loads = @ + 1]
                  ELSE [calc EXCEPT !.pc = "get_return", !.first = v, !.loads = @ + 1]
    /\ UNCHANGED <<driverFrame, emissivity, value, everSet, store>>

\* else return emissivity: the build loads the variable again or returns the
\* value it loaded for the comparison
CalcGetEmissivityReturn ==
    /\ calc.pc = "get_return"
    /\ \/ calc' = [calc EXCEPT !.pc = "prepare", !.tmp_emi = calc.first]
       \/ \E v \in LoadedEmissivity :
             calc' = [calc EXCEPT !.pc = "prepare", !.tmp_emi = v, !.loads = @ + 1]
    /\ UNCHANGED <<driverFrame, emissivity, value, everSet, store>>

\* the emissivity read by the iteration reads the static variable
IterationEmissivity_Shared(c) == emissivity

\* the last argument of mlx90632_calc_temp_object_iteration and its two
\* variants: tmp_emi
IterationEmissivity(c) == c.tmp_emi

\* kEa, kEb, TAdut; the reflected and the extended calculation also form
\* TaTr4 = TaTr4 - (TaTr4 - ta4) / tmp_emi
CalcPrepare ==
    /\ calc.pc = "prepare"
    /\ calc' = [calc EXCEPT !.pc = "loop",
                            !.used = IF calc.fn = "object" THEN {} ELSE {calc.tmp_emi}]
    /\ UNCHANGED <<driverFrame, emissivity, value, everSet, store>>

\* for (i = 0; i < 5; ++i) temp = mlx90632_calc_temp_object_iteration(..., tmp_emi)
CalcIterate ==
    /\ calc.pc = "loop"
    /\ calc.i < 5
    /\ calc' = [calc EXCEPT !.i = @ + 1, !.used = @ \cup {IterationEmissivity(calc)}]
    /\ UNCHANGED <<driverFrame, emissivity, value, everSet, store>>

\* return temp
CalcReturn ==
    /\ calc.pc = "loop"
    /\ ~(calc.i < 5)
    /\ calc' = [calc EXCEPT !.pc = "done"]
    /\ UNCHANGED <<driverFrame, emissivity, value, everSet, store>>

(* ---------------------------------------------------------------------- *)
(* mlx90632_set_meas_type, mlx90632_get_meas_type                           *)
(* ---------------------------------------------------------------------- *)
\* what neither function touches
modeFrame == <<emVars, devVars, call, measRate, type, eeprom_version, tries, ext_tries, start_measurement_ret, cyclic,
               channel, channel_old, read, new_value, refresh_time, meas_type,
               out, eeprom, polls, sleeps, msleeps, sawReady, triggers, ee0,
               meas, address, programmed>>

\* only the five bits of the hardware field are compared
ValidMeasType_FieldOnly(t) == BitAnd(t, 31) \in {0, 17}

\* the negation of the test that makes mlx90632_set_meas_type return -EINVAL
ValidMeasType(t) ==
    ~((t # MLX90632_MTYP_MEDICAL) /\ (t # MLX90632_MTYP_EXTENDED)
        /\ (t # MLX90632_MTYP_MEDICAL_BURST) /\ (t # MLX90632_MTYP_EXTENDED_BURST))

\* the power-mode bits of the word read are kept
SetMeasTypeHalted_PowerKept(reg_ctrl, t) ==
    BitOr(BitAnd(reg_ctrl, BitXor(65535, MLX90632_CFG_MTYP_MASK)),
          MLX90632_MTYP_STATUS(MLX90632_MEASUREMENT_TYPE_STATUS(t)))

\* the type field of the word read is kept
SetMeasTypeHalted_TypeKept(reg_ctrl, t) ==
    BitOr(BitAnd(reg_ctrl, BitXor(65535, MLX90632_CFG_PWR_MASK)),
          MLX90632_PWR_STATUS_HALT)

\* reg_ctrl = reg_ctrl & (~MLX90632_CFG_MTYP_MASK & ~MLX90632_CFG_PWR_MASK);
\* reg_ctrl |= (MLX90632_MTYP_STATUS(MLX90632_MEASUREMENT_TYPE_STATUS(type)) | MLX90632_PWR_STATUS_HALT)
SetMeasTypeHalted(reg_ctrl, t) ==
    BitOr(BitAnd(reg_ctrl, BitAnd(BitXor(65535, MLX90632_CFG_MTYP_MASK),
                                  BitXor(65535, MLX90632_CFG_PWR_MASK))),
          BitOr(MLX90632_MTYP_STATUS(MLX90632_MEASUREMENT_TYPE_STATUS(t)),
                MLX90632_PWR_STATUS_HALT))

\* the burst bit of the type is not looked at
SetMeasTypePowered_AlwaysContinuous(reg_ctrl, t) ==
    BitOr(BitAnd(reg_ctrl, BitXor(65535, MLX90632_CFG_PWR_MASK)),
          MLX90632_PWR_STATUS_CONTINUOUS)

\* only the type field of the word read is kept next to the new power mode
SetMeasTypePowered_FieldsOnly(reg_ctrl, t) ==
    BitOr(BitAnd(reg_ctrl, MLX90632_CFG_MTYP_MASK),
          IF MLX90632_MEASUREMENT_BURST_STATUS(t) # 0
          THEN MLX90632_PWR_STATUS_SLEEP_STEP
          ELSE MLX90632_PWR_STATUS_CONTINUOUS)

\* reg_ctrl = reg_ctrl & ~MLX90632_CFG_PWR_MASK;
\* reg_ctrl |= SLEEP_STEP if MLX90632_MEASUREMENT_BURST_STATUS(type), else CONTINUOUS
SetMeasTypePowered(reg_ctrl, t) ==
    BitOr(BitAnd(reg_ctrl, BitXor(65535, MLX90632_CFG_PWR_MASK)),
          IF MLX90632_MEASUREMENT_BURST_STATUS(t) # 0
          THEN MLX90632_PWR_STATUS_SLEEP_STEP
          ELSE MLX90632_PWR_STATUS_CONTINUOUS)

Call_set_meas_type ==
    /\ \E t \in MeasTypes : type' = t
    /\ typeSet' = -1
    /\ typeHalted' = -1
    /\ Enter("set_meas_type", "st_reset")
    /\ ext_tries' = 0
    /\ triggers' = 0
    /\ UNCHANGED <<emVars, devVars, measRate, programmed>>

\* the check of the argument, then mlx90632_addressed_reset:
\* ret = mlx90632_i2c_write(0x3005, MLX90632_RESET_CMD)
SetMeasTypeReset ==
    /\ pc = "st_reset"
    /\ IF ~ValidMeasType(type)
       THEN /\ Finish(-EINVAL)
            /\ UNCHANGED <<log, failed, afterFail>>
       ELSE \/ \E e \in BusErrs :
                 /\ Note(e)
                 /\ log' = Append(log, Wr(MLX90632_REG_EE_UNLOCK, MLX90632_RESET_CMD, e))
                 /\ Finish(e)
            \/ /\ Note(0)
               /\ log' = Append(log, Wr(MLX90632_REG_EE_UNLOCK, MLX90632_RESET_CMD, 0))
               /\ pc' = "st_usleep"
               /\ UNCHANGED ret
    /\ UNCHANGED <<modeFrame, typeSet, typeHalted, reg_status, ctrl>>

\* mlx90632_addressed_reset: usleep(150, 200)
SetMeasTypeUsleep ==
    /\ pc = "st_usleep"
    /\ Note(0)
    /\ log' = Append(log, Us(150, 200))
    /\ pc' = "st_read1"
    /\ UNCHANGED <<modeFrame, typeSet, typeHalted, ret, reg_status, ctrl>>

\* ret = mlx90632_i2c_read(MLX90632_REG_CTRL, &reg_ctrl), then the new word
\* is prepared in reg_ctrl
SetMeasTypeRead(here, next, fresh) ==
    /\ pc = here
    /\ \/ \E e \in BusErrs :
            /\ Note(e)
            /\ log' = Append(log, Rd(MLX90632_REG_CTRL, 0, e))
            /\ reg_status' = reg_status
            /\ Finish(e)
       \/ /\ Note(0)
          /\ log' = Append(log, Rd(MLX90632_REG_CTRL, ctrl, 0))
          /\ reg_status' = fresh
          /\ pc' = next
          /\ UNCHANGED ret
    /\ UNCHANGED <<modeFrame, typeSet, typeHalted, ctrl>>

SetMeasTypeRead1 == SetMeasTypeRead("st_read1", "st_write1", SetMeasTypeHalted(ctrl, type))
SetMeasTypeRead2 == SetMeasTypeRead("st_read2", "st_write2", SetMeasTypePowered(ctrl, type))

\* ret = mlx90632_i2c_write(MLX90632_REG_CTRL, reg_ctrl), the type and the halt
SetMeasTypeWrite1 ==
    /\ pc = "st_write1"
    /\ \/ \E e \in BusErrs :
            /\ Note(e)
            /\ log' = Append(log, Wr(MLX90632_REG_CTRL, reg_status, e))
            /\ ctrl' = ctrl
            /\ typeHalted' = typeHalted
            /\ Finish(e)
       \/ /\ Note(0)
          /\ log' = Append(log, Wr(MLX90632_REG_CTRL, reg_status, 0))
          /\ ctrl' = reg_status
          /\ typeHalted' = type
          /\ pc' = "st_read2"
          /\ UNCHANGED ret
    /\ UNCHANGED <<modeFrame, typeSet, reg_status>>

\* ret = mlx90632_i2c_write(MLX90632_REG_CTRL, reg_ctrl); return ret
SetMeasTypeWrite2 ==
    /\ pc = "st_write2"
    /\ \/ \E e \in BusErrs :
            /\ Note(e)
            /\ log' = Append(log, Wr(MLX90632_REG_CTRL, reg_status, e))
            /\ ctrl' = ctrl
            /\ typeSet' = typeSet
            /\ typeHalted' = typeHalted
            /\ Finish(e)
       \/ /\ Note(0)
          /\ log' = Append(log, Wr(MLX90632_REG_CTRL, reg_status, 0))
          /\ ctrl' = reg_status
          /\ typeSet' = type
          /\ typeHalted' = -1
          /\ Finish(0)
    /\ UNCHANGED <<modeFrame, reg_status>>

Call_get_meas_type ==
    /\ Enter("get_meas_type", "gm_read")
    /\ ext_tries' = 0
    /\ triggers' = 0
    /\ UNCHANGED <<emVars, devVars, measRate, type, typeSet, typeHalted, programmed>>

\* ret = mlx90632_i2c_read(MLX90632_REG_CTRL, &reg_temp) and the decoding
GetMeasType ==
    /\ pc = "gm_read"
    /\ \/ \E e \in BusErrs :
            /\ Note(e)
            /\ log' = Append(log, Rd(MLX90632_REG_CTRL, 0, e))
            /\ reg_status' = reg_status
            /\ Finish(e)
       \/ /\ Note(0)
          /\ log' = Append(log, Rd(MLX90632_REG_CTRL, ctrl, 0))
          /\ reg_status' = ctrl
          /\ Finish(GetMeasTypeResult(ctrl))
    /\ UNCHANGED <<modeFrame, typeSet, typeHalted, ctrl>>

Call_calculate_dataset_ready_time ==
    /\ Enter("calculate_dataset_ready_time", "sb_type")
    /\ ext_tries' = 0
    /\ triggers' = 0
    /\ UNCHANGED <<emVars, devVars, measRate, type, typeSet, typeHalted, programmed>>

Next ==
    \/ Call_start_measurement
    \/ StartMeasurementRead
    \/ StartMeasurementClear
    \/ StartMeasurementPoll
    \/ StartMeasurementSleep
    \/ StartMeasurementExhausted
    \/ Call_read_temp_raw
    \/ ReadAmbientNew
    \/ ReadAmbientOld
    \/ ReadObjectNew2
    \/ ReadObjectNew1
    \/ ReadObjectOld2
    \/ ReadObjectOld1
    \/ Call_read_temp_object_raw_extended
    \/ Call_read_temp_raw_extended
    \/ ReadAmbientNewExtended
    \/ ReadAmbientOldExtended
    \/ ReadObjectExtended1
    \/ ReadObjectExtended2
    \/ ReadObjectExtended3
    \/ ReadObjectExtended4
    \/ ReadObjectExtended5
    \/ ReadObjectExtended6
    \/ Call_start_measurement_burst
    \/ BurstReadCtrl
    \/ BurstWriteCtrl
    \/ BurstGetMeasType
    \/ BurstMeasurementTime1
    \/ BurstMeasurementTime2
    \/ BurstMeasurementTime3
    \/ BurstMsleep
    \/ BurstPoll
    \/ BurstSleep
    \/ BurstExhausted
    \/ Call_read_temp_raw_burst
    \/ Call_read_temp_raw_extended_burst
    \/ Call_get_refresh_rate
    \/ GetRefreshRate
    \/ Call_init
    \/ InitReadVersion
    \/ InitReadStatus
    \/ InitClearStatus

Spec == Init /\ [][Next]_vars

\* the EEPROM refresh-rate writer
NextEE ==
    \/ Call_set_refresh_rate
    \/ RefreshRateRead1
    \/ RefreshRateRead2
    \/ EepromUnlockErase
    \/ EepromErase
    \/ EepromWaitErased
    \/ EepromUnlockWrite
    \/ EepromWrite
    \/ EepromWaitWritten
    \/ Call_get_refresh_rate
    \/ GetRefreshRate

SpecEE == InitEE /\ [][NextEE]_vars

\* the driver is a single thread that always takes its next step, and the
\* device ends every erase and every program: a status read that leaves the
\* wait eventually happens
LeavesWaitErased == EepromWaitErased /\ pc' # "ee_wait1"
LeavesWaitWritten == EepromWaitWritten /\ pc' # "ee_wait2"

SpecEELive ==
    /\ InitEE
    /\ [][NextEE]_vars
    /\ WF_vars(NextEE)
    /\ WF_vars(LeavesWaitErased)
    /\ WF_vars(LeavesWaitWritten)

\* timing tables of the measurement-type operations: entries with distinct
\* rate codes (0x800D, 0x821D, 0x870D, 0x820D, 0x810D), entries whose other
\* bits are all set or all clear (0x07FF, 0xF8E2, 0x0300, 0xFFFF, 0x0000),
\* and entries that all carry code 7
ModeTables ==
    {[a \in EEAddrs |->
        CASE a = MLX90632_EE_MEDICAL_MEAS1 -> t[1]
          [] a = MLX90632_EE_MEDICAL_MEAS2 -> t[2]
          [] a = MLX90632_EE_EXTENDED_MEAS1 -> t[3]
          [] a = MLX90632_EE_EXTENDED_MEAS2 -> t[4]
          [] a = MLX90632_EE_EXTENDED_MEAS3 -> t[5]] :
     t \in {<<32781, 33309, 34573, 33293, 33037>>,
            <<2047, 63714, 768, 65535, 0>>,
            <<2047, 34589, 34573, 1792, 65535>>}}

InitMode == InitTables(ModeTables, ModeCtrlVals)

\* the measurement-type operations and the burst timing computation
NextMode ==
    \/ Call_set_meas_type
    \/ SetMeasTypeReset
    \/ SetMeasTypeUsleep
    \/ SetMeasTypeRead1
    \/ SetMeasTypeWrite1
    \/ SetMeasTypeRead2
    \/ SetMeasTypeWrite2
    \/ Call_get_meas_type
    \/ GetMeasType
    \/ Call_calculate_dataset_ready_time
    \/ BurstGetMeasType
    \/ BurstMeasurementTime1
    \/ BurstMeasurementTime2
    \/ BurstMeasurementTime3

SpecMode == InitMode /\ [][NextMode]_vars

\* the emissivity setting
NextEmissivity ==
    \/ mlx90632_set_emissivity
    \/ mlx90632_get_emissivity

SpecEmissivity == Init /\ [][NextEmissivity]_vars

\* an object-temperature calculation with a concurrent mlx90632_set_emissivity
NextCalc ==
    \/ CalcStart
    \/ CalcGetEmissivityTest
    \/ CalcGetEmissivityReturn
    \/ CalcPrepare
    \/ CalcIterate
    \/ CalcReturn
    \/ SetEmissivityBegin
    \/ SetEmissivityEnd

SpecCalc == Init /\ [][NextCalc]_vars

\* mlx90632_read_temp_raw on a medical continuous device that keeps measuring
InitContinuous == InitWith({33293}, {33309}, {6})

NextContinuous ==
    \/ Call_read_temp_raw
    \/ StartMeasurementRead
    \/ StartMeasurementClear
    \/ StartMeasurementPoll
    \/ StartMeasurementSleep
    \/ StartMeasurementExhausted
    \/ ReadAmbientNew
    \/ ReadAmbientOld
    \/ ReadObjectNew2
    \/ ReadObjectNew1
    \/ ReadObjectOld2
    \/ ReadObjectOld1
    \/ DeviceMeasures

SpecContinuous == InitContinuous /\ [][NextContinuous]_vars

(* ====================================================================== *)
(* Properties                                                               *)
(* ====================================================================== *)
Done(f) == call = f /\ pc = "done"

\* the addresses of the bus calls recorded in the log
LogAddrs == [i \in 1..Len(log) |-> log[i].addr]

IsPrefix(s, t) == Len(s) <= Len(t) /\ \A i \in 1..Len(s) : s[i] = t[i]

\* the six RAM reads of a medical acquisition whose new channel is p
MedicalReads(p) ==
    <<MLX90632_ADDR_RAM + 3 * 1 + 2, MLX90632_ADDR_RAM + 3 * 2 + 2,
      MLX90632_ADDR_RAM + 3 * p + 1, MLX90632_ADDR_RAM + 3 * p,
      MLX90632_ADDR_RAM + 3 * (3 - p) + 1, MLX90632_ADDR_RAM + 3 * (3 - p)>>

\* the signed value of the i-th logged word
LogInt(i) == IF log[i].val >= 32768 THEN log[i].val - 65536 ELSE log[i].val

\* quotient by 2 truncated toward zero
Half(x) == IF x >= 0 THEN x \div 2 ELSE -((-x) \div 2)

\* the operations that read a status or control word, change a field of it
\* and write it back, on control words with bits outside the fields
\* 0xFE0F is the control word of the measurement-type tests, 0xF60F the same
\* word with the start-burst bit clear
RegisterCtrlVals == {65039, 62991}

InitRegisters == InitWith({33293}, {33309}, RegisterCtrlVals)

NextRegisters ==
    \/ Call_init
    \/ InitReadVersion
    \/ InitReadStatus
    \/ InitClearStatus
    \/ Call_start_measurement
    \/ StartMeasurementRead
    \/ StartMeasurementClear
    \/ StartMeasurementPoll
    \/ StartMeasurementSleep
    \/ StartMeasurementExhausted
    \/ Call_start_measurement_burst
    \/ BurstReadCtrl
    \/ BurstWriteCtrl
    \/ BurstGetMeasType
    \/ BurstMeasurementTime1
    \/ BurstMeasurementTime2
    \/ BurstMeasurementTime3
    \/ BurstMsleep
    \/ BurstPoll
    \/ BurstSleep
    \/ BurstExhausted
    \/ Call_set_meas_type
    \/ SetMeasTypeReset
    \/ SetMeasTypeUsleep
    \/ SetMeasTypeRead1
    \/ SetMeasTypeWrite1
    \/ SetMeasTypeRead2
    \/ SetMeasTypeWrite2

SpecRegisters == InitRegisters /\ [][NextRegisters]_vars

(* ---------------------------------------------------------------------- *)
(* C1: mlx90632_start_measurement returns -ETIMEDOUT if and only if no bus  *)
(* call failed and none of the 100 status polls made after the data-ready   *)
(* clear showed data ready; then exactly 100 polls and exactly 100 sleeps   *)
(* of (10000, 11000) us occurred.  A success on the k-th poll (1 <= k <=    *)
(* 100) is preceded by exactly k-1 sleeps.                                  *)
(* ---------------------------------------------------------------------- *)
C1_TimeoutExactlyAfter100Polls ==
    Done("start_measurement") =>
        /\ (ret = -ETIMEDOUT) <=> (failed = 0 /\ polls = 100 /\ ~sawReady)
        /\ (ret = -ETIMEDOUT) => (polls = 100 /\ sleeps = 100)
        /\ (failed = 0 /\ sawReady) =>
              (ret >= 0 /\ polls \in 1..100 /\ sleeps = polls - 1)

\* the trigger timed out after 100 polls and 100 sleeps
C1_Witness ==
    /\ Done("start_measurement")
    /\ ret = -ETIMEDOUT
    /\ polls = 100
    /\ sleeps = 100
    /\ ~sawReady

C4_ExtendedTableWalk ==
    call = "read_temp_raw_extended" =>
        /\ triggers <= 3
        /\ pc \in {"sm_read", "sm_clear", "sm_poll", "sm_sleep"} =>
              start_measurement_ret # 19
        /\ Len(log) > 0 => start_measurement_ret = 19
        /\ (pc = "done" /\ triggers = 3 /\ start_measurement_ret >= 0
               /\ start_measurement_ret # 19) =>
              (ret = -ETIMEDOUT /\ log = <<>>)
        /\ (pc = "done" /\ start_measurement_ret = 19) =>
              (ret # -ETIMEDOUT /\ Len(log) >= 1)

\* three triggers completed, the last with position 18, and the call timed out
C4_Witness ==
    /\ Done("read_temp_raw_extended")
    /\ triggers = 3
    /\ start_measurement_ret = 18
    /\ ret = -ETIMEDOUT
    /\ failed = 0

(* ---------------------------------------------------------------------- *)
(* Extended object read: the six object words are the last six log entries *)
(* ---------------------------------------------------------------------- *)
ExtendedCalls == {"read_temp_object_raw_extended", "read_temp_raw_extended",
                  "read_temp_raw_extended_burst"}

\* number of ambient reads logged before the object reads
ObjBase == IF call = "read_temp_object_raw_extended" THEN 0 ELSE 2

ExtendedReads ==
    <<MLX90632_ADDR_RAM + 3 * 17, MLX90632_ADDR_RAM + 3 * 17 + 1,
      MLX90632_ADDR_RAM + 3 * 18, MLX90632_ADDR_RAM + 3 * 18 + 1,
      MLX90632_ADDR_RAM + 3 * 19, MLX90632_ADDR_RAM + 3 * 19 + 1>>

\* ((r1 - r2 - r3 + r4) / 2 + r5 + r6) over the integers, r1 the word logged at k+1
Combined(k) ==
    Half(LogInt(k + 1) - LogInt(k + 2) - LogInt(k + 3) + LogInt(k + 4))
        + LogInt(k + 5) + LogInt(k + 6)

\* all six object words have been read successfully
SixRead == Len(log) = ObjBase + 6 /\ log[Len(log)].ret = 0

(* ---------------------------------------------------------------------- *)
(* C5: if the combination of the six extended object words lies outside    *)
(* [-32768, 32767], mlx90632_read_temp_object_raw_extended returns -EINVAL  *)
(* and leaves the caller's object value unwritten; a success return always  *)
(* delivers the unwrapped combination.                                      *)
(* ---------------------------------------------------------------------- *)
C5_ExtendedOverflowRejected ==
    (call \in ExtendedCalls /\ pc = "done") =>
        /\ (SixRead /\ (Combined(ObjBase) > 32767 \/ Combined(ObjBase) < -32768)) =>
              (ret = -EINVAL /\ out.object_new = Unwritten)
        /\ ret = 0 =>
              /\ SixRead
              /\ out.object_new = Combined(ObjBase)
              /\ out.object_new \in -32768..32767
        /\ ret # 0 => out.object_new = Unwritten

\* six words whose combination exceeds 32767 were read and the call failed
C5_Witness ==
    /\ call \in ExtendedCalls
    /\ pc = "done"
    /\ SixRead
    /\ Combined(ObjBase) > 32767
    /\ ret = -EINVAL
    /\ out.object_new = Unwritten

(* ---------------------------------------------------------------------- *)
(* C6: mlx90632_read_temp_object_raw_extended reads RAM_1(17), RAM_2(17),   *)
(* RAM_1(18), RAM_2(18), RAM_1(19), RAM_2(19) in this order as signed       *)
(* 16-bit values r1..r6 and, when the result is in range, stores            *)
(* (r1 - r2 - r3 + r4) / 2 + r5 + r6 computed without wrap-around, the      *)
(* quotient truncated toward zero.                                          *)
(* ---------------------------------------------------------------------- *)
C6_ExtendedObjectFormula ==
    call \in ExtendedCalls =>
        /\ \A i \in 1..Len(log) :
              i > ObjBase => (log[i].op = "r" /\ i - ObjBase <= 6
                               /\ log[i].addr = ExtendedReads[i - ObjBase])
        /\ (pc = "done" /\ SixRead /\ Combined(ObjBase) \in -32768..32767) =>
              (ret = 0 /\ out.object_new = Combined(ObjBase))

\* an in-range result whose halved part is odd and negative, so that the
\* rounding direction of the division shows
C6_Witness ==
    /\ call \in ExtendedCalls
    /\ pc = "done"
    /\ SixRead
    /\ ret = 0
    /\ LogInt(ObjBase + 1) - LogInt(ObjBase + 2) - LogInt(ObjBase + 3)
           + LogInt(ObjBase + 4) = -32767
    /\ out.object_new = -16385

(* ---------------------------------------------------------------------- *)
(* EEPROM writer: the shape of the bus log of mlx90632_set_refresh_rate     *)
(* ---------------------------------------------------------------------- *)
MEAS1 == 9441
MEAS2 == 9442

IsUnlock(ev) == ev.op = "w" /\ ev.addr = 12293 /\ ev.val = 21836
IsStatusRead(ev) == ev.op = "r" /\ ev.addr = 16383
ShowsEEBusy(ev) == (ev.val \div 512) % 2 = 1
IsEntryRead(ev, a) == ev.op = "r" /\ ev.addr = a
IsEntryWrite(ev, a) == ev.op = "w" /\ ev.addr = a

\* value v with bits 8-10 replaced by r
ReplaceField(v, r) == v - ((v \div 256) % 8) * 256 + r * 256

\* the bus call ev is the one the sequence allows in phase ph of entry a
EEKindOK(ev, ph, a) ==
    CASE ph = "read1" -> IsEntryRead(ev, MEAS1)
      [] ph = "entry" -> IsUnlock(ev) \/ (a = MEAS1 /\ IsEntryRead(ev, MEAS2))
      [] ph = "erase" -> IsEntryWrite(ev, a) /\ ev.val = 0
      [] ph = "wait1" -> IsStatusRead(ev)
      [] ph = "unlock2" -> IsUnlock(ev)
      [] ph = "program" -> IsEntryWrite(ev, a)
      [] ph = "wait2" -> IsStatusRead(ev)
      [] ph = "after" -> a = MEAS1 /\ IsEntryRead(ev, MEAS2)

\* the phase and entry after the successful bus call ev
EENext(ev, ph, a) ==
    CASE ph = "read1" -> <<"entry", MEAS1>>
      [] ph = "entry" -> IF IsUnlock(ev) THEN <<"erase", a>> ELSE <<"entry", MEAS2>>
      [] ph = "erase" -> <<"wait1", a>>
      [] ph = "wait1" -> IF ShowsEEBusy(ev) THEN <<"wait1", a>> ELSE <<"unlock2", a>>
      [] ph = "unlock2" -> <<"program", a>>
      [] ph = "program" -> <<"wait2", a>>
      [] ph = "wait2" -> IF ShowsEEBusy(ev) THEN <<"wait2", a>> ELSE <<"after", a>>
      [] ph = "after" -> <<"entry", MEAS2>>

\* the phase reached by the log from index i on, "bad" if a bus call does not
\* fit the sequence, "failed" after a failed bus call that ends the log
RECURSIVE EEPhase(_, _, _, _)
EEPhase(l, i, ph, a) ==
    IF i > Len(l) THEN <<ph, a>>
    ELSE IF ~EEKindOK(l[i], ph, a) THEN <<"bad", a>>
    ELSE IF l[i].ret < 0 THEN (IF i = Len(l) THEN <<"failed", a>> ELSE <<"bad", a>>)
    ELSE EEPhase(l, i + 1, EENext(l[i], ph, a)[1], EENext(l[i], ph, a)[2])

(* ---------------------------------------------------------------------- *)
(* C7: every timing-entry update of mlx90632_set_refresh_rate is exactly    *)
(* the bus sequence: write key 0x554C to 0x3005, write 0 to the entry,      *)
(* status reads until EEPROM-busy is clear, write key 0x554C to 0x3005,     *)
(* write the value to the entry, status reads until EEPROM-busy is clear,   *)
(* with no other bus call in between; an entry is never programmed without  *)
(* having been unlocked and erased first.                                   *)
(* ---------------------------------------------------------------------- *)
C7_EepromWriteSequence ==
    call = "set_refresh_rate" =>
        /\ EEPhase(log, 1, "read1", 0)[1] # "bad"
        /\ (pc = "done" /\ ret = 0) =>
              EEPhase(log, 1, "read1", 0) \in {<<"entry", MEAS2>>, <<"after", MEAS2>>}

\* both entries were updated, each wait having seen the EEPROM busy
C7_Witness ==
    /\ Done("set_refresh_rate")
    /\ ret = 0
    /\ Len(log) = 18
    /\ EEPhase(log, 1, "read1", 0) = <<"after", MEAS2>>

(* ---------------------------------------------------------------------- *)
(* C8: if a bus call fails in mlx90632_set_refresh_rate, the call returns   *)
(* that error at once and makes no further bus call; after a failure while  *)
(* the first entry is handled the second entry is neither read nor written. *)
(* ---------------------------------------------------------------------- *)
C8_RefreshRateAbortsOnFailure ==
    call = "set_refresh_rate" =>
        /\ afterFail = 0
        /\ \A i \in 1..Len(log) :
              log[i].ret < 0 =>
                 /\ i = Len(log)
                 /\ pc = "done"
                 /\ ret = log[i].ret
                 /\ (\A j \in 1..Len(log) : log[j].addr # MEAS2) =>
                       eeprom[MEAS2] = ee0[MEAS2]
        /\ (pc = "done" /\ ret < 0) => (Len(log) >= 1 /\ log[Len(log)].ret = ret)

\* the erase of the first entry failed: the call returned the error and the
\* second entry was not accessed
C8_Witness ==
    /\ Done("set_refresh_rate")
    /\ ret = -EPERM
    /\ Len(log) = 3
    /\ IsEntryWrite(log[3], MEAS1)
    /\ log[3].ret = -EPERM
    /\ eeprom[MEAS2] = ee0[MEAS2]

C10_RefreshRateRoundTrip ==
    /\ call = "set_refresh_rate" =>
          /\ \A i \in 1..Len(log) : \A a \in {MEAS1, MEAS2} :
                (IsEntryWrite(log[i], a) /\ \E j \in 1..(i - 1) : IsEntryWrite(log[j], a)) =>
                    \E k \in 1..(i - 1) :
                        /\ IsEntryRead(log[k], a)
                        /\ log[i].val = ReplaceField(log[k].val, measRate)
          /\ (pc = "done" /\ ret = 0) =>
                \A a \in {MEAS1, MEAS2} :
                    /\ eeprom[a] = ReplaceField(ee0[a], measRate)
                    /\ (eeprom[a] \div 256) % 8 = measRate
    /\ (Done("get_refresh_rate") /\ failed = 0 /\ programmed >= 0) =>
          ret = programmed

\* a rate different from the stored one was programmed and read back
C10_Witness ==
    /\ Done("get_refresh_rate")
    /\ failed = 0
    /\ programmed = 7
    /\ ret = 7
    /\ eeprom[MEAS1] = ReplaceField(32781, 7)
    /\ eeprom[MEAS2] = ReplaceField(33309, 7)

(* ---------------------------------------------------------------------- *)
(* Measurement type: the fields of a control-register word                  *)
(* ---------------------------------------------------------------------- *)
TypeField(v) == (v \div 16) % 32
PowerField(v) == (v \div 2) % 4
\* the word without its type and power-mode fields
OtherBits(v) == v - TypeField(v) * 16 - PowerField(v) * 2

IsCtrlRead(ev) == ev.op = "r" /\ ev.addr = 12289
IsCtrlWrite(ev) == ev.op = "w" /\ ev.addr = 12289

\* the i-th step of mlx90632_set_meas_type(t) as recorded in the log l
SetMeasTypeStep(l, i, t) ==
    CASE i = 1 -> l[1].op = "w" /\ l[1].addr = 12293 /\ l[1].val = 6
      [] i = 2 -> l[2].op = "usleep" /\ l[2].addr = 150 /\ l[2].val = 200
      [] i = 3 -> IsCtrlRead(l[3])
      [] i = 4 -> /\ IsCtrlWrite(l[4])
                  /\ TypeField(l[4].val) = t % 128
                  /\ PowerField(l[4].val) = 0
                  /\ OtherBits(l[4].val) = OtherBits(l[3].val)
      [] i = 5 -> IsCtrlRead(l[5])
      [] i = 6 -> /\ IsCtrlWrite(l[6])
                  /\ PowerField(l[6].val) = (IF t >= 128 THEN 1 ELSE 3)
                  /\ TypeField(l[6].val) = TypeField(l[5].val)
                  /\ OtherBits(l[6].val) = OtherBits(l[5].val)
      [] OTHER -> FALSE

C12_InvalidTypeRejectedUpFront ==
    (call = "set_meas_type" /\ type \notin {0, 17, 128, 145}) =>
        /\ log = <<>>
        /\ sleeps = 0
        /\ msleeps = 0
        /\ failed = 0
        /\ pc \in {"st_reset", "done"}
        /\ pc = "done" => ret = -EINVAL

\* type 0x20, whose hardware field is the medical one, was rejected
C12_Witness ==
    /\ Done("set_meas_type")
    /\ type = 32
    /\ ret = -EINVAL
    /\ log = <<>>

(* ---------------------------------------------------------------------- *)
(* C13: on a device whose control register retains what is written, a       *)
(* successful mlx90632_set_meas_type(m), m one of medical, extended,        *)
(* medical burst, extended burst, followed by a successful                  *)
(* mlx90632_get_meas_type makes the latter return m.                        *)
(* ---------------------------------------------------------------------- *)
C13_MeasTypeRoundTrip ==
    /\ typeSet \in {-1, 0, 17, 128, 145}
    /\ (Done("set_meas_type") /\ ret = 0) => typeSet = type
    /\ (Done("get_meas_type") /\ failed = 0 /\ typeSet >= 0) => ret = typeSet

\* the extended burst type was set and read back
C13_Witness ==
    /\ Done("get_meas_type")
    /\ failed = 0
    /\ typeSet = 145
    /\ ret = 145

\* the value mlx90632_get_meas_type is to return for the control word v
ExpectedMeasType(v) ==
    IF TypeField(v) \notin {0, 17} THEN -22
    ELSE IF PowerField(v) = 3 THEN TypeField(v)
    ELSE IF PowerField(v) = 1 THEN TypeField(v) + 128
    ELSE -22

(* ---------------------------------------------------------------------- *)
(* C14: mlx90632_get_meas_type makes one control-register read and returns  *)
(* the type field (bits 4-8) when it is 0x00 or 0x11 and the power mode     *)
(* (bits 1-2) is continuous, that type plus 0x80 when the power mode is     *)
(* sleeping-step, and -EINVAL for any other type field and for the power    *)
(* modes halt and step.                                                     *)
(* ---------------------------------------------------------------------- *)
C14_GetMeasTypeDecoding ==
    call = "get_meas_type" =>
        /\ Len(log) <= 1
        /\ pc = "done" =>
              /\ Len(log) = 1
              /\ IsCtrlRead(log[1])
              /\ log[1].ret = 0 => ret = ExpectedMeasType(log[1].val)

\* a medical control word in power mode halt was decoded as invalid
C14_Witness ==
    /\ Done("get_meas_type")
    /\ failed = 0
    /\ TypeField(log[1].val) = 0
    /\ PowerField(log[1].val) = 0
    /\ ret = -EINVAL

(* ---------------------------------------------------------------------- *)
(* Burst trigger: the timing table as the log shows it                      *)
(* ---------------------------------------------------------------------- *)
\* 2000 >> c for a rate code c
RateTimes == <<2000, 1000, 500, 250, 125, 62, 31, 15>>
RateTime(v) == RateTimes[((v \div 256) % 8) + 1]

\* the entries of the timing table that is active for the burst type t
ActiveTable(t) == IF t = 128 THEN <<9441, 9442>> ELSE <<9457, 9458, 9459>>

\* the sum of the times of the timing words logged at indices i..j
RECURSIVE LogTimeSum(_, _, _)
LogTimeSum(l, i, j) == IF i > j THEN 0 ELSE RateTime(l[i].val) + LogTimeSum(l, i + 1, j)

\* the log entries k+1.. are successful reads of the first entries of tab
TableReads(l, k, tab) ==
    \A i \in (k + 1)..Len(l) :
        /\ i - k <= Len(tab)
        /\ l[i].op = "r"
        /\ l[i].addr = tab[i - k]
        /\ l[i].ret = 0 => l[i].val = eeprom[tab[i - k]]

\* the log of the burst trigger up to its coarse sleep
BurstPrefixOK(l) ==
    /\ Len(l) >= 1 => IsCtrlRead(l[1])
    /\ Len(l) >= 2 =>
          /\ IsCtrlWrite(l[2])
          /\ (l[2].val \div 2048) % 2 = 1
          /\ l[2].val = l[1].val + (IF (l[1].val \div 2048) % 2 = 1 THEN 0 ELSE 2048)
    /\ Len(l) >= 3 => IsCtrlRead(l[3])
    /\ Len(l) >= 4 =>
          /\ ExpectedMeasType(l[3].val) \in {128, 145}
          /\ LET tab == ActiveTable(ExpectedMeasType(l[3].val))
                 n == Len(tab)
             IN  /\ Len(l) <= 3 + n + 1
                 /\ TableReads(SubSeq(l, 1, IF Len(l) > 3 + n THEN 3 + n ELSE Len(l)), 3, tab)
                 /\ Len(l) = 3 + n + 1 =>
                       /\ l[Len(l)].op = "msleep"
                       /\ l[Len(l)].val = LogTimeSum(l, 4, 3 + n)
    /\ \A i \in 1..Len(l) : i < Len(l) => l[i].ret = 0

RECURSIVE TableTimeSum(_, _)
TableTimeSum(tab, i) ==
    IF i > Len(tab) THEN 0 ELSE RateTime(eeprom[tab[i]]) + TableTimeSum(tab, i + 1)

(* ---------------------------------------------------------------------- *)
(* C17: in a burst mode mlx90632_calculate_dataset_ready_time returns the   *)
(* sum, over the active timing table (0x24E1..0x24E2 for medical burst,     *)
(* 0x24F1..0x24F3 for extended burst), of 2000 >> c with c the bits 8..10   *)
(* of the entry; each entry is shifted on its own before the summing, and   *)
(* the entries are read once each, in order, after the control register.    *)
(* ---------------------------------------------------------------------- *)
C17_DatasetReadyTimeIsSumOfEntryTimes ==
    (Done("calculate_dataset_ready_time") /\ failed = 0
       /\ ExpectedMeasType(ctrl) \in {128, 145}) =>
        LET tab == ActiveTable(ExpectedMeasType(ctrl))
        IN  /\ ret = TableTimeSum(tab, 1)
            /\ Len(log) = 1 + Len(tab)
            /\ IsCtrlRead(log[1])
            /\ TableReads(log, 1, tab)

\* three extended entries of rate code 7 give 15 + 15 + 15, where shifting
\* the sum would give 46
C17_Witness ==
    /\ Done("calculate_dataset_ready_time")
    /\ failed = 0
    /\ ExpectedMeasType(ctrl) = 145
    /\ \A i \in 1..3 : (eeprom[ActiveTable(145)[i]] \div 256) % 8 = 7
    /\ ret = 45

(* ---------------------------------------------------------------------- *)
(* C18: when the current measurement type is a continuous one (medical or   *)
(* extended), mlx90632_calculate_dataset_ready_time returns -EINVAL and     *)
(* reads no timing entry.                                                   *)
(* ---------------------------------------------------------------------- *)
C18_ContinuousTypeHasNoReadyTime ==
    (Done("calculate_dataset_ready_time") /\ failed = 0
       /\ ExpectedMeasType(ctrl) \in {0, 17}) =>
        /\ ret = -EINVAL
        /\ Len(log) = 1
        /\ IsCtrlRead(log[1])

\* the control register held 0xFF1F, extended continuous
C18_Witness ==
    /\ Done("calculate_dataset_ready_time")
    /\ ctrl = 65311
    /\ log = <<Rd(MLX90632_REG_CTRL, 65311, 0)>>
    /\ ret = -EINVAL

(* ---------------------------------------------------------------------- *)
(* C19 as stated: in every driver operation the first negative result of a  *)
(* bus read or write is returned to the caller unchanged, and the operation *)
(* makes no further bus call and no further sleep after that failure.       *)
(* mlx90632_get_refresh_rate breaks it: on a failed read it returns         *)
(* MLX90632_MEAS_HZ_ERROR whatever the bus reported.                        *)
(* ---------------------------------------------------------------------- *)
C19_EveryOperationReturnsBusError ==
    /\ afterFail = 0
    /\ (pc = "done" /\ failed # 0) => ret = failed

(* ---------------------------------------------------------------------- *)
(* C19, amended: no operation makes a bus call or sleeps after the first    *)
(* negative bus result, and every operation returns that result unchanged,  *)
(* except mlx90632_get_refresh_rate, which returns MLX90632_MEAS_HZ_ERROR.  *)
(* ---------------------------------------------------------------------- *)
C19_BusErrorEndsOperation ==
    /\ afterFail = 0
    /\ (pc = "done" /\ failed # 0) =>
          ret = IF call = "get_refresh_rate" THEN MLX90632_MEAS_HZ_ERROR ELSE failed

\* a raw read whose trigger succeeded after several polls fails with -EIO
\* in the middle of its channel reads and returns -EIO
C19_Witness ==
    /\ Done("read_temp_raw")
    /\ failed = -EIO
    /\ ret = -EIO
    /\ pc = "done"
    /\ Len(log) >= 3
    /\ log[Len(log)].ret = -EIO
    /\ \A i \in 1..(Len(log) - 1) : log[i].ret = 0

(* ---------------------------------------------------------------------- *)
(* Raw reads: which outputs of the caller have been written                 *)
(* ---------------------------------------------------------------------- *)
Written(x) == x # Unwritten

MedicalRawReads == {"read_temp_raw", "read_temp_raw_burst"}
ExtendedRawReads == {"read_temp_raw_extended", "read_temp_raw_extended_burst"}

\* the number of channel reads of the current call that succeeded
RECURSIVE ReadsDone(_, _)
ReadsDone(l, i) ==
    IF i > Len(l) THEN 0
    ELSE (IF l[i].op = "r" /\ l[i].ret = 0 THEN 1 ELSE 0) + ReadsDone(l, i + 1)

(* ---------------------------------------------------------------------- *)
(* C20 as stated: each raw-read operation either returns success with all   *)
(* of the caller's ambient and object outputs written, or returns an error  *)
(* with none of them modified.  A read that fails after the first ambient   *)
(* word was stored breaks it.                                               *)
(* ---------------------------------------------------------------------- *)
C20_RawReadAllOrNothing ==
    (pc = "done" /\ call \in MedicalRawReads \cup ExtendedRawReads) =>
        \/ /\ ret >= 0
           /\ Written(out.ambient_new) /\ Written(out.ambient_old)
           /\ Written(out.object_new)
           /\ call \in MedicalRawReads => Written(out.object_old)
        \/ /\ ret < 0
           /\ out = NoOut

(* ---------------------------------------------------------------------- *)
(* C20, amended: each raw-read operation either returns success with all of *)
(* the caller's ambient and object outputs written, or returns an error; on *)
(* an error return exactly the outputs whose reads were completed before    *)
(* the failing step are written (new ambient after one read, old ambient    *)
(* after two, and for the medical reads new object after four), in that     *)
(* order, and the last output of the operation is never written.            *)
(* ---------------------------------------------------------------------- *)
C20_RawReadWritesInOrder ==
    (pc = "done" /\ call \in MedicalRawReads \cup ExtendedRawReads) =>
        LET n == ReadsDone(log, 1)
        IN  /\ ret >= 0 =>
                  /\ Written(out.ambient_new) /\ Written(out.ambient_old)
                  /\ Written(out.object_new)
                  /\ call \in MedicalRawReads => Written(out.object_old)
            /\ ret < 0 =>
                  /\ Written(out.ambient_new) <=> n >= 1
                  /\ Written(out.ambient_old) <=> n >= 2
                  /\ Written(out.object_new) <=> (call \in MedicalRawReads /\ n >= 4)
                  /\ ~Written(out.object_old)
                  /\ n < (IF call \in MedicalRawReads THEN 6 ELSE 8) \/ ret = -EINVAL

\* a medical raw read failed on its fifth channel read: both ambient outputs
\* and the new object output are written, the old object output is not
C20_Witness ==
    /\ Done("read_temp_raw")
    /\ ret = -EIO
    /\ ReadsDone(log, 1) = 4
    /\ Written(out.ambient_new)
    /\ Written(out.ambient_old)
    /\ Written(out.object_new)
    /\ ~Written(out.object_old)

(* ---------------------------------------------------------------------- *)
(* Measurement sequencer: where an error code comes from                    *)
(* ---------------------------------------------------------------------- *)
SequencerCalls == {"start_measurement", "start_measurement_burst",
                   "read_temp_object_raw_extended"}
                      \cup MedicalRawReads \cup ExtendedRawReads

BurstCalls == {"start_measurement_burst", "read_temp_raw_burst",
               "read_temp_raw_extended_burst"}

\* the three places where the sequencer itself returns -EINVAL: the control
\* word does not decode to a burst type, the medical object read is given a
\* cycle position other than 1 and 2, the extended object value does not
\* fit into 16 bits
InvalidArgumentCase ==
    \/ /\ call \in BurstCalls
       /\ ExpectedMeasType(ctrl) \notin {128, 145}
       /\ polls = 0
    \/ /\ call = "read_temp_raw"
       /\ start_measurement_ret \notin {1, 2}
       /\ ReadsDone(log, 1) = 2
    \/ /\ call \in ExtendedRawReads \cup {"read_temp_object_raw_extended"}
       /\ ReadsDone(log, 1) = (IF call = "read_temp_object_raw_extended" THEN 6 ELSE 8)

(* ---------------------------------------------------------------------- *)
(* C21 as stated: within the measurement sequencer every negative return    *)
(* value other than -ETIMEDOUT is a value that a bus read or write returned *)
(* during that call.  The -EINVAL of the object reads and of the            *)
(* dataset-ready time breaks it: no bus call returned it.                   *)
(* ---------------------------------------------------------------------- *)
C21_OnlyTimeoutIsSynthesized ==
    (pc = "done" /\ call \in SequencerCalls /\ ret < 0 /\ ret # -ETIMEDOUT) =>
        failed = ret

(* ---------------------------------------------------------------------- *)
(* C21, amended: within the measurement sequencer every negative return     *)
(* value other than -ETIMEDOUT and -EINVAL is a value that a bus read or    *)
(* write returned during that call; -EINVAL is synthesized by the driver    *)
(* exactly for a control word that is not a burst type in the dataset-ready *)
(* time, a cycle position other than 1 and 2 in the medical object read,    *)
(* and an extended object value outside the signed 16-bit range.            *)
(* ---------------------------------------------------------------------- *)
C21_TimeoutAndInvalidAreSynthesized ==
    (pc = "done" /\ call \in SequencerCalls /\ ret < 0) =>
        \/ ret = failed
        \/ ret = -ETIMEDOUT /\ failed = 0
        \/ ret = -EINVAL /\ failed = 0 /\ InvalidArgumentCase

\* a medical raw read whose trigger returned cycle position 17 returns
\* -EINVAL although every bus call succeeded
C21_Witness ==
    /\ Done("read_temp_raw")
    /\ ret = -EINVAL
    /\ failed = 0
    /\ start_measurement_ret = 17
    /\ Len(log) = 2

(* ---------------------------------------------------------------------- *)
(* C22: mlx90632_start_measurement clears data-ready before it polls: it    *)
(* reads the status register once, writes it back exactly once with bit 0   *)
(* cleared, and every polling read, including the one whose data-ready      *)
(* observation ends the wait, happens after that write.                     *)
(* ---------------------------------------------------------------------- *)
C22_DataReadyClearedBeforePolling ==
    call = "start_measurement" =>
        /\ Len(log) <= 2
        /\ Len(log) >= 1 => (log[1].op = "r" /\ log[1].addr = 16383)
        /\ Len(log) = 2 =>
              /\ log[1].ret = 0
              /\ log[2].op = "w"
              /\ log[2].addr = 16383
              /\ log[2].val % 2 = 0
              /\ log[2].val = log[1].val - (log[1].val % 2)
        /\ (polls > 0 \/ sleeps > 0 \/ sawReady) => (Len(log) = 2 /\ log[2].ret = 0)
        /\ (pc = "done" /\ ret >= 0) => (Len(log) = 2 /\ polls >= 1 /\ sawReady)

\* the status word 0x0087 was read with data-ready set, written back as
\* 0x0086, and the second poll after that ended the wait
C22_Witness ==
    /\ Done("start_measurement")
    /\ log = <<Rd(16383, 135, 0), Wr(16383, 134, 0)>>
    /\ polls = 2
    /\ sawReady
    /\ ret >= 0

(* ---------------------------------------------------------------------- *)
(* C23: when mlx90632_start_measurement succeeds, its return value equals   *)
(* bits 2-6 of the status word read by the poll that observed data-ready    *)
(* set (a value in 0..31), and no status access follows that poll.          *)
(* ---------------------------------------------------------------------- *)
C23_ReturnsCyclePositionOfReadyPoll ==
    (Done("start_measurement") /\ ret >= 0) =>
        /\ failed = 0
        /\ sawReady
        /\ reg_status % 2 = 1
        /\ ret = (reg_status \div 4) % 32
        /\ ret \in 0..31
        /\ polls >= 1
        /\ sleeps = polls - 1
        /\ Len(log) = 2

\* the third poll read 0x00CF: data ready at cycle position 19
C23_Witness ==
    /\ Done("start_measurement")
    /\ reg_status = 207
    /\ ret = 19
    /\ polls = 3

(* ---------------------------------------------------------------------- *)
(* C24: channel resolution maps position 1 to (new = 1, old = 2) and        *)
(* position 2 to (new = 2, old = 1), so new and old differ and both are in  *)
(* {1, 2}; for every other input value the object read path returns         *)
(* -EINVAL without any bus read and without writing the channel or object   *)
(* outputs.                                                                 *)
(* ---------------------------------------------------------------------- *)
C24_ChannelResolution ==
    call \in MedicalRawReads =>
        LET pos == IF call = "read_temp_raw_burst" THEN 2 ELSE start_measurement_ret
            resolved == \/ pc \in {"obj_new2", "obj_new1", "obj_old2", "obj_old1"}
                        \/ pc = "done" /\ Len(log) >= 3
            rejected == /\ pc = "done" /\ failed = 0
                        /\ start_measurement_ret >= 0
                        /\ pos \notin {1, 2}
        IN  /\ resolved =>
                  /\ pos \in {1, 2}
                  /\ channel = pos
                  /\ channel_old = 3 - pos
                  /\ channel # channel_old
                  /\ {channel, channel_old} = {1, 2}
                  /\ Len(log) >= 3 => log[3].addr = 16384 + 3 * channel + 1
            /\ rejected =>
                  /\ ret = -EINVAL
                  /\ Len(log) = 2
                  /\ channel = 0 /\ channel_old = 0
                  /\ ~Written(out.object_new) /\ ~Written(out.object_old)
            /\ (pc = "done" /\ failed = 0 /\ Len(log) = 2) => rejected

\* the trigger returned cycle position 18: the object read is refused after
\* the two ambient reads
C24_Witness ==
    /\ Done("read_temp_raw")
    /\ start_measurement_ret = 18
    /\ ret = -EINVAL
    /\ Len(log) = 2
    /\ channel = 0

(* ---------------------------------------------------------------------- *)
(* C25: in the medical object read, each of object_new and object_old       *)
(* equals the integer quotient by 2 of the sum of the two signed 16-bit     *)
(* sub-register values (RAM_2 and RAM_1) of its channel, with the sum       *)
(* formed without 16-bit wrap-around, so the stored result always lies      *)
(* within the signed 16-bit range.                                          *)
(* ---------------------------------------------------------------------- *)
C25_ObjectIsMeanOfSubRegisters ==
    call \in MedicalRawReads =>
        /\ Written(out.object_new) =>
              /\ Len(log) >= 4
              /\ log[3].addr = 16384 + 3 * channel + 1
              /\ log[4].addr = 16384 + 3 * channel
              /\ out.object_new = Half(LogInt(3) + LogInt(4))
              /\ out.object_new \in -32768..32767
        /\ Written(out.object_old) =>
              /\ Len(log) = 6
              /\ log[5].addr = 16384 + 3 * channel_old + 1
              /\ log[6].addr = 16384 + 3 * channel_old
              /\ out.object_old = Half(LogInt(5) + LogInt(6))
              /\ out.object_old \in -32768..32767
        /\ (pc = "done" /\ ret = 0) =>
              (Written(out.object_new) /\ Written(out.object_old))

\* both sub-registers of the new channel hold 0x7FFF and both of the old
\* channel 0x8000: the sums 65534 and -65536 do not fit into 16 bits, the
\* means 32767 and -32768 do
C25_Witness ==
    /\ Done("read_temp_raw_burst")
    /\ ret = 0
    /\ LogInt(3) = 32767 /\ LogInt(4) = 32767
    /\ LogInt(5) = -32768 /\ LogInt(6) = -32768
    /\ out.object_new = 32767
    /\ out.object_old = -32768

(* ---------------------------------------------------------------------- *)
(* C26: mlx90632_init returns -EPROTONOSUPPORT whenever the EEPROM version  *)
(* word is read successfully and its low byte is not 0x05, and in that case *)
(* it has performed no read and no write of the status register.            *)
(* ---------------------------------------------------------------------- *)
C26_WrongVersionRejectedAtOnce ==
    call = "init" =>
        /\ Len(log) >= 1 => (log[1].op = "r" /\ log[1].addr = 9227)
        /\ (Len(log) >= 1 /\ log[1].ret = 0 /\ log[1].val % 256 # 5) =>
              /\ pc = "done"
              /\ ret = -93
              /\ Len(log) = 1
              /\ \A i \in 1..Len(log) : log[i].addr # 16383
        /\ (pc = "done" /\ ret = -93) =>
              (Len(log) = 1 /\ log[1].ret = 0 /\ log[1].val % 256 # 5)

\* the version word 0x0103 of the unit test
C26_Witness ==
    /\ Done("init")
    /\ log = <<Rd(9227, 259, 0)>>
    /\ ret = -93

(* ---------------------------------------------------------------------- *)
(* C27: mlx90632_init returns the positive code ERANGE exactly when the     *)
(* version read succeeds with low byte 0x05, the status read and the        *)
(* data-ready clear both succeed, and bits 8-14 of the version word equal   *)
(* 0x05; under the same conditions with any other value of bits 8-14 it     *)
(* returns 0; in no other case does it return a non-negative value.         *)
(* ---------------------------------------------------------------------- *)
C27_InitResultCodes ==
    Done("init") =>
        LET complete == /\ Len(log) = 3
                        /\ \A i \in 1..3 : log[i].ret = 0
                        /\ log[1].val % 256 = 5
                        /\ IsStatusRead(log[2])
                        /\ log[3].op = "w" /\ log[3].addr = 16383
                        /\ log[3].val = log[2].val - (log[2].val % 2)
            key == (log[1].val \div 256) % 128
        IN  /\ ret = 34 <=> (complete /\ key = 5)
            /\ ret = 0 <=> (complete /\ key # 5)
            /\ ret >= 0 => ret \in {0, 34}

\* the version word 0x8505: bit 15 is outside the key field, so the
\* extended-range key is recognised
C27_Witness ==
    /\ Done("init")
    /\ Len(log) = 3
    /\ log[1].val = 34053
    /\ ret = 34

(* ---------------------------------------------------------------------- *)
(* C28: for a valid type, mlx90632_set_meas_type first reads the control    *)
(* register and writes it back with the power mode set to step, then        *)
(* writes the reset command to 0x3005 and sleeps 150-200 microseconds, then *)
(* writes the originally read control value back, and only then performs    *)
(* the read, write-type-with-halt, read, write-final-power-mode steps.      *)
(* The code starts with the reset command: the read of the control          *)
(* register, the step-mode write and the write-back are not made.           *)
(* ---------------------------------------------------------------------- *)
C28_ResetIsPrecededByStepMode ==
    (call = "set_meas_type" /\ type \in {0, 17, 128, 145}) =>
        /\ Len(log) >= 1 => IsCtrlRead(log[1])
        /\ Len(log) >= 2 =>
              /\ IsCtrlWrite(log[2])
              /\ PowerField(log[2].val) = 2
              /\ TypeField(log[2].val) = TypeField(log[1].val)
              /\ OtherBits(log[2].val) = OtherBits(log[1].val)
        /\ Len(log) >= 3 =>
              (log[3].op = "w" /\ log[3].addr = 12293 /\ log[3].val = 6)
        /\ Len(log) >= 4 =>
              (log[4].op = "usleep" /\ log[4].addr = 150 /\ log[4].val = 200)
        /\ Len(log) >= 5 => (IsCtrlWrite(log[5]) /\ log[5].val = log[1].val)
        /\ Len(log) >= 6 => IsCtrlRead(log[6])
        /\ Len(log) >= 7 =>
              /\ IsCtrlWrite(log[7])
              /\ TypeField(log[7].val) = type % 128
              /\ PowerField(log[7].val) = 0
        /\ Len(log) >= 8 => IsCtrlRead(log[8])
        /\ Len(log) >= 9 =>
              /\ IsCtrlWrite(log[9])
              /\ PowerField(log[9].val) = (IF type >= 128 THEN 1 ELSE 3)
        /\ (pc = "done" /\ ret = 0) => Len(log) = 9

(* ---------------------------------------------------------------------- *)
(* C29: mlx90632_get_emissivity returns the value last passed to            *)
(* mlx90632_set_emissivity, except that it returns 1.0 when the last value  *)
(* set was exactly 0.0 or when no value has ever been set; setting 0.0 is   *)
(* therefore indistinguishable from never setting it.                       *)
(* ---------------------------------------------------------------------- *)
C29_EmissivityRoundTrip ==
    /\ emissivity = (IF everSet THEN value ELSE [nan |-> FALSE, neg |-> FALSE, mag |-> 0])
    /\ Done("get_emissivity") =>
          emissivity_ret =
              IF ~everSet \/ (~value.nan /\ value.mag = 0)
              THEN [nan |-> FALSE, neg |-> FALSE, mag |-> 1000]
              ELSE value

\* 0.8 was set and read back
C29_Witness ==
    /\ Done("get_emissivity")
    /\ everSet
    /\ value = [nan |-> FALSE, neg |-> FALSE, mag |-> 800]
    /\ emissivity_ret = [nan |-> FALSE, neg |-> FALSE, mag |-> 800]

(* ---------------------------------------------------------------------- *)
(* C30: if mlx90632_set_meas_type fails after its first control-register    *)
(* write has succeeded (the second read or the second write fails), nothing *)
(* is rolled back: the device is left with the requested type field and     *)
(* power mode halt, and a following mlx90632_get_meas_type returns -EINVAL  *)
(* rather than either the previous or the requested mode.                   *)
(* ---------------------------------------------------------------------- *)
C30_FailedModeSwitchLeavesHalt ==
    /\ (Done("set_meas_type") /\ failed # 0 /\ Len(log) >= 5) =>
          /\ log[4].op = "w" /\ log[4].ret = 0
          /\ ret = failed
          /\ typeHalted = type
          /\ ctrl = log[4].val
          /\ TypeField(ctrl) = type % 128
          /\ PowerField(ctrl) = 0
    /\ (Done("set_meas_type") /\ failed # 0 /\ Len(log) < 5) => typeHalted = -1
    /\ (Done("get_meas_type") /\ failed = 0 /\ typeHalted # -1) =>
          /\ TypeField(ctrl) = typeHalted % 128
          /\ PowerField(ctrl) = 0
          /\ ret = -22
          /\ ret # typeHalted

\* the switch to extended burst failed at its second write; the type that
\* is read back afterwards is invalid
C30_Witness ==
    /\ Done("get_meas_type")
    /\ failed = 0
    /\ typeHalted = 145
    /\ ctrl = 65305
    /\ ret = -22


(* ---------------------------------------------------------------------- *)
(* Burst trigger on a device in a continuous mode                           *)
(* ---------------------------------------------------------------------- *)
\* mlx90632_start_measurement_burst returned -EINVAL with every bus call
\* succeeding, on a control word that was read as a continuous type
BurstRejectedContinuous ==
    /\ Done("start_measurement_burst")
    /\ ret = -EINVAL
    /\ failed = 0
    /\ Len(log) >= 1
    /\ ExpectedMeasType(log[1].val) \in {0, 17}

(* ---------------------------------------------------------------------- *)
(* C31 as stated: if mlx90632_start_measurement_burst returns -EINVAL       *)
(* because the device is in a continuous mode, it has not written the       *)
(* control register: the start-burst bit has not been set on the device and *)
(* no sleep or status poll has occurred.  The code writes the start-burst   *)
(* bit before it looks at the measurement type.                             *)
(* ---------------------------------------------------------------------- *)
C31_RejectedBurstWritesNothing ==
    BurstRejectedContinuous =>
        /\ \A i \in 1..Len(log) : ~IsCtrlWrite(log[i])
        /\ (ctrl \div 2048) % 2 = 0
        /\ msleeps = 0 /\ sleeps = 0 /\ polls = 0

(* ---------------------------------------------------------------------- *)
(* C31, amended: if mlx90632_start_measurement_burst returns -EINVAL        *)
(* because the device is in a continuous mode, it has already written the   *)
(* control register: the word read with the start-burst bit set is on the   *)
(* device, the type was read after that write, and no sleep or status poll  *)
(* has occurred.                                                            *)
(* ---------------------------------------------------------------------- *)
C31_RejectedBurstHasSetStartBit ==
    BurstRejectedContinuous =>
        /\ Len(log) = 3
        /\ IsCtrlRead(log[1])
        /\ IsCtrlWrite(log[2])
        /\ log[2].ret = 0
        /\ log[2].val = log[1].val + (IF (log[1].val \div 2048) % 2 = 1 THEN 0 ELSE 2048)
        /\ IsCtrlRead(log[3])
        /\ log[3].val = log[2].val
        /\ ctrl = log[2].val
        /\ msleeps = 0 /\ sleeps = 0 /\ polls = 0

\* a medical continuous device (control word 0x0006) rejected the burst
\* trigger with 0x0806 written to its control register
C31_Witness ==
    /\ BurstRejectedContinuous
    /\ log[1] = Rd(MLX90632_REG_CTRL, 6, 0)
    /\ log[2] = Wr(MLX90632_REG_CTRL, 2054, 0)
    /\ ctrl = 2054
    /\ polls = 0

(* ---------------------------------------------------------------------- *)
(* C32 as stated: with a device that keeps measuring on its own in          *)
(* continuous mode, the samples returned by a successful                    *)
(* mlx90632_read_temp_raw all belong to the cycle whose position the        *)
(* trigger returned: the channel read as new is still the most recently     *)
(* updated channel when the last RAM read is made.  A measurement the       *)
(* device completes between the ready poll and the last RAM read breaks it. *)
(* ---------------------------------------------------------------------- *)
C32_NewChannelIsLatestAtLastRead ==
    (Done("read_temp_raw") /\ ret >= 0) =>
        channel = DeviceChannel(start_measurement_ret)

(* ---------------------------------------------------------------------- *)
(* C32, amended: with a device that keeps measuring on its own in           *)
(* continuous mode, a successful mlx90632_read_temp_raw reads the channels  *)
(* selected by the cycle position the trigger returned and does not read    *)
(* the status register again: the channel read as new is the most recently  *)
(* updated channel when the last RAM read is made only if the device has    *)
(* completed no measurement, or an even number of them, since the ready     *)
(* poll.                                                                    *)
(* ---------------------------------------------------------------------- *)
C32_NewChannelIsTheTriggersChannel ==
    (Done("read_temp_raw") /\ ret >= 0) =>
        /\ start_measurement_ret \in {1, 2}
        /\ channel = start_measurement_ret
        /\ channel_old = 3 - channel
        /\ Len(log) = 6
        /\ \A i \in 1..Len(log) : ~IsStatusRead(log[i])
        /\ log[3].addr = MLX90632_RAM_2(channel)
        /\ log[4].addr = MLX90632_RAM_1(channel)
        /\ (channel = DeviceChannel(start_measurement_ret)) <=> (completed % 2 = 0)

\* the trigger returned position 1, the device finished one more measurement
\* before the last RAM read, and the read returned channel 1 as new
C32_Witness ==
    /\ Done("read_temp_raw")
    /\ ret = 0
    /\ start_measurement_ret = 1
    /\ completed = 1
    /\ channel = 1
    /\ DeviceChannel(start_measurement_ret) = 2
    /\ Written(out.object_old)

(* ---------------------------------------------------------------------- *)
(* C33 as stated: if a trigger inside mlx90632_read_temp_raw_extended       *)
(* completes with a cycle position outside {17, 18, 19} (for example 1 or   *)
(* 2 because the device is in medical mode), the call returns               *)
(* Invalid-Argument instead of treating that value as a not-yet-finished    *)
(* extended cycle.  The code compares the position with 19 only.            *)
(* ---------------------------------------------------------------------- *)
C33_ForeignPositionIsInvalidArgument ==
    (call = "read_temp_raw_extended" /\ start_measurement_ret \in {1, 2}) =>
        (pc = "done" /\ ret = -EINVAL)

(* ---------------------------------------------------------------------- *)
(* C33, amended: if a trigger inside mlx90632_read_temp_raw_extended        *)
(* completes with a cycle position outside {17, 18, 19} (for example 1 or   *)
(* 2 because the device is in medical mode), the call does not return       *)
(* Invalid-Argument: it treats that value as a not-yet-finished extended    *)
(* cycle, triggers again without reading RAM, and returns Timeout when that *)
(* was the third trigger.                                                   *)
(* ---------------------------------------------------------------------- *)
C33_ForeignPositionIsRetried ==
    (call = "read_temp_raw_extended" /\ start_measurement_ret \in {1, 2}) =>
        /\ log = <<>>
        /\ \A x \in {out.ambient_new, out.ambient_old, out.object_new} : ~Written(x)
        /\ \/ /\ pc \in {"sm_read", "sm_clear", "sm_poll", "sm_sleep"}
              /\ triggers \in {2, 3}
              /\ ret = 0
           \/ /\ pc = "done"
              /\ triggers = 3
              /\ ret = -ETIMEDOUT

\* three triggers completed, the last with position 1, and the call timed out
C33_Witness ==
    /\ Done("read_temp_raw_extended")
    /\ triggers = 3
    /\ start_measurement_ret = 1
    /\ ret = -ETIMEDOUT
    /\ failed = 0
    /\ log = <<>>

(* ---------------------------------------------------------------------- *)
(* C34: if the device advances its cycle position by exactly one step per   *)
(* completed trigger in the cyclic order 17, 18, 19, 17 and every bus call  *)
(* succeeds with data ready seen within the poll bound, then                *)
(* mlx90632_read_temp_raw_extended never returns -ETIMEDOUT, whatever       *)
(* position the device starts from: it reaches position 19 with at most     *)
(* three triggers and goes on to read RAM.                                  *)
(* ---------------------------------------------------------------------- *)
C34_CyclicDeviceNeverTimesOut ==
    (call = "read_temp_raw_extended" /\ failed = 0 /\ cyclic) =>
        /\ ret # -ETIMEDOUT
        /\ triggers <= 3
        /\ pc = "done" =>
              /\ start_measurement_ret = 19
              /\ Len(log) = 8
              /\ ret \in {0, -EINVAL}

\* the device started from position 17: the third trigger returned 19 and
\* the call read RAM and succeeded
C34_Witness ==
    /\ Done("read_temp_raw_extended")
    /\ failed = 0
    /\ cyclic
    /\ triggers = 3
    /\ start_measurement_ret = 19
    /\ ret = 0
    /\ Written(out.object_new)

(* ---------------------------------------------------------------------- *)
(* EEPROM-busy wait: how it is left                                         *)
(* ---------------------------------------------------------------------- *)
InEepromWait == call = "set_refresh_rate" /\ pc \in {"ee_wait1", "ee_wait2"}

\* the last bus call was a status read that failed or showed EEPROM busy clear
LastReadEndsWait(l) ==
    /\ Len(l) >= 1
    /\ IsStatusRead(l[Len(l)])
    /\ l[Len(l)].ret < 0 \/ ~ShowsEEBusy(l[Len(l)])

\* a step of the wait: it makes no sleep, and it leaves the wait only with a
\* status read that failed or showed EEPROM busy clear
EepromWaitStep ==
    InEepromWait =>
        /\ sleeps' = sleeps
        /\ msleeps' = msleeps
        /\ pc' # pc => LastReadEndsWait(log')
        /\ pc' = pc => (reg_status' \div 512) % 2 = 1

(* ---------------------------------------------------------------------- *)
(* C35: the EEPROM-busy poll has no retry bound and no sleep:               *)
(* mlx90632_set_refresh_rate returns from each wait only when a status read *)
(* shows EEPROM busy clear or a status read fails, it keeps polling however *)
(* many reads have shown busy, and, given that the device eventually clears *)
(* EEPROM busy after each erase and each program, it returns.               *)
(* ---------------------------------------------------------------------- *)
C35_EepromWaitHasNoBound ==
    /\ [][EepromWaitStep]_vars
    /\ [](call = "set_refresh_rate" => (sleeps = 0 /\ msleeps = 0))
    /\ [](InEepromWait => polls <= MaxEEBusy + 1)
    /\ (call = "set_refresh_rate" /\ pc # "done") ~> (pc = "done")

\* a wait has seen more busy reads than the history records and is still
\* polling, without having slept
C35_Witness ==
    /\ InEepromWait
    /\ polls = MaxEEBusy + 1
    /\ (reg_status \div 512) % 2 = 1
    /\ sleeps = 0
    /\ failed = 0

(* ---------------------------------------------------------------------- *)
(* Read-modify-write of the status and control registers                    *)
(* ---------------------------------------------------------------------- *)
IsRegisterWrite(ev) ==
    ev.op = "w" /\ ev.addr \in {MLX90632_REG_STATUS, MLX90632_REG_CTRL}

\* the field a write of the current call at log index i is to change:
\* data ready (bit 0), start burst (bit 11), type and power mode (bits 4-8
\* and 1-2) in the first control write of mlx90632_set_meas_type, the power
\* mode in its second
TargetMask(i) ==
    CASE call \in {"init", "start_measurement"} -> 1
      [] call = "start_measurement_burst" -> 2048
      [] call = "set_meas_type" /\ i = 4 -> 496 + 6
      [] OTHER -> 6

\* the value the targeted field is given
TargetValue(i) ==
    CASE call \in {"init", "start_measurement"} -> 0
      [] call = "start_measurement_burst" -> 2048
      [] call = "set_meas_type" /\ i = 4 -> (type % 128) * 16
      [] OTHER -> IF type >= 128 THEN 2 ELSE 6

\* the word v without the bits of mask m
Outside(v, m) == v - BitAnd(v, m)

(* ---------------------------------------------------------------------- *)
(* C36: every read-modify-write the driver performs on the status or       *)
(* control register (the data-ready clear in mlx90632_init and              *)
(* mlx90632_start_measurement, both control writes of                       *)
(* mlx90632_set_meas_type, and the start-burst write of                     *)
(* mlx90632_start_measurement_burst) writes the value just read with only   *)
(* the targeted field changed; all other bits are written back as read.     *)
(* ---------------------------------------------------------------------- *)
C36_ReadModifyWriteKeepsOtherBits ==
    (call \in {"init", "start_measurement", "start_measurement_burst", "set_meas_type"}) =>
        \A i \in 1..Len(log) :
            IsRegisterWrite(log[i]) =>
                /\ i >= 2
                /\ log[i - 1].op = "r"
                /\ log[i - 1].addr = log[i].addr
                /\ log[i - 1].ret = 0
                /\ Outside(log[i].val, TargetMask(i)) = Outside(log[i - 1].val, TargetMask(i))
                /\ BitAnd(log[i].val, TargetMask(i)) = TargetValue(i)

\* mlx90632_set_meas_type(extended burst) on a control word with bits
\* outside the two fields: both writes carry those bits, and each of the
\* four operations has been seen to write
C36_Witness ==
    /\ Done("set_meas_type")
    /\ ret = 0
    /\ type = 145
    /\ Len(log) = 6
    /\ OtherBits(log[3].val) = 65033
    /\ log[4].val = 65305
    /\ log[6].val = 65307

(* ---------------------------------------------------------------------- *)
(* C37: mlx90632_get_refresh_rate reads only the first medical timing entry *)
(* and returns its bits 8-10 as the rate; if that read fails it returns the *)
(* distinguished value MLX90632_MEAS_HZ_ERROR instead of the bus error      *)
(* code.                                                                    *)
(* ---------------------------------------------------------------------- *)
C37_RefreshRateFromFirstEntry ==
    Done("get_refresh_rate") =>
        /\ Len(log) = 1
        /\ log[1].op = "r"
        /\ log[1].addr = MEAS1
        /\ failed = 0 =>
              /\ log[1].val = eeprom[MEAS1]
              /\ ret = (eeprom[MEAS1] \div 256) % 8
        /\ failed # 0 =>
              /\ log[1].ret = failed
              /\ ret = MLX90632_MEAS_HZ_ERROR
              /\ failed = -EIO => ret # failed

\* the two medical entries hold different rates after a refresh-rate change
\* that failed half way, and the rate of the first entry was returned
C37_Witness ==
    /\ Done("get_refresh_rate")
    /\ failed = 0
    /\ ret = 7
    /\ (eeprom[MEAS1] \div 256) % 8 = 7
    /\ (eeprom[MEAS2] \div 256) % 8 = 2

(* ---------------------------------------------------------------------- *)
(* Emissivity: the interval (0, 1]                                          *)
(* ---------------------------------------------------------------------- *)
InUnitInterval(d) == ~d.nan /\ ~d.neg /\ d.mag > 0 /\ d.mag <= 1000

(* ---------------------------------------------------------------------- *)
(* C38 as stated: the emissivity value returned by mlx90632_get_emissivity, *)
(* and therefore used by every object-temperature calculation, always lies  *)
(* in the interval (0, 1], whatever sequence of mlx90632_set_emissivity     *)
(* calls preceded it.  The setter stores any double: 2.5, -1.0 and NaN are  *)
(* returned as set.                                                         *)
(* ---------------------------------------------------------------------- *)
C38_EmissivityAlwaysInUnitInterval ==
    Done("get_emissivity") => InUnitInterval(emissivity_ret)

(* ---------------------------------------------------------------------- *)
(* C38, amended: the emissivity value returned by mlx90632_get_emissivity,  *)
(* and therefore used by every object-temperature calculation, lies in the  *)
(* interval (0, 1] exactly when the value last passed to                    *)
(* mlx90632_set_emissivity was in (0, 1] or equal to 0.0, or no value was   *)
(* ever set; any other value set is returned unchanged.                     *)
(* ---------------------------------------------------------------------- *)
C38_EmissivityInUnitIntervalIfSetSo ==
    Done("get_emissivity") =>
        /\ InUnitInterval(emissivity_ret) <=>
              (~everSet \/ InUnitInterval(value) \/ (~value.nan /\ value.mag = 0))
        /\ ~InUnitInterval(emissivity_ret) => emissivity_ret = value

\* 2.5 was set and mlx90632_get_emissivity returned 2.5
C38_Witness ==
    /\ Done("get_emissivity")
    /\ everSet
    /\ value = [nan |-> FALSE, neg |-> FALSE, mag |-> 2500]
    /\ emissivity_ret = [nan |-> FALSE, neg |-> FALSE, mag |-> 2500]
    /\ ~InUnitInterval(emissivity_ret)

(* ---------------------------------------------------------------------- *)
(* C39 as stated: each object-temperature calculation reads the shared      *)
(* emissivity exactly once, before its first iteration, so all iterations   *)
(* of one calculation use the same emissivity value even when               *)
(* mlx90632_set_emissivity is called concurrently while the calculation     *)
(* runs.  mlx90632_get_emissivity reads the variable for the comparison     *)
(* with 0.0 and again for the value it returns.                             *)
(* ---------------------------------------------------------------------- *)
C39_EmissivityReadOnce ==
    calc.pc \in {"prepare", "loop", "done"} =>
        /\ calc.loads = 1
        /\ Cardinality(calc.used) <= 1

(* ---------------------------------------------------------------------- *)
(* C39, amended: each object-temperature calculation calls                  *)
(* mlx90632_get_emissivity exactly once, before its first iteration, so all *)
(* iterations of one calculation use the same emissivity value even when    *)
(* mlx90632_set_emissivity is called concurrently while the calculation     *)
(* runs; that call reads the shared variable once or twice, and with a      *)
(* concurrent set between the two reads the value used can be 0.0, which    *)
(* the getter does not return otherwise.                                    *)
(* ---------------------------------------------------------------------- *)
C39_EmissivityTakenBeforeTheLoop ==
    /\ calc.pc \in {"prepare", "loop", "done"} =>
          /\ calc.loads \in {1, 2}
          /\ calc.used \subseteq {calc.tmp_emi}
          /\ calc.loads = 1 => ~(~calc.tmp_emi.nan /\ calc.tmp_emi.mag = 0)
          /\ calc.loads = 2 => ~(~calc.first.nan /\ calc.first.mag = 0)
    /\ calc.pc = "done" =>
          /\ calc.i = 5
          /\ calc.used = {calc.tmp_emi}

\* a reflected calculation ran its five iterations with emissivity 0.0,
\* which was stored between the two reads of the getter
C39_Witness ==
    /\ calc.pc = "done"
    /\ calc.fn = "reflected"
    /\ calc.loads = 2
    /\ calc.first = [nan |-> FALSE, neg |-> FALSE, mag |-> 500]
    /\ calc.tmp_emi = [nan |-> FALSE, neg |-> FALSE, mag |-> 0]
    /\ calc.used = {[nan |-> FALSE, neg |-> FALSE, mag |-> 0]}
    /\ calc.i = 5

====
